---- MODULE Spec2Model ----
(***************************************************************************)
(* Model of the MCP gateway (src/integration.js): the in-memory credential *)
(* store, the protected call executor and the tool handlers chat,          *)
(* vectorSearch and vectorSearchWithSummary, run as concurrent invocations *)
(* on one event loop against a backend that may answer anything.           *)
(*                                                                         *)
(* Strings are sequences of one-character strings, so that toLowerCase,    *)
(* includes, startsWith, trim and slice are computed as JavaScript         *)
(* computes them.  null and the empty string are both the empty sequence:  *)
(* every test the code makes on the token (!OAUTH_TOKEN, OAUTH_TOKEN ? :)  *)
(* treats them alike, and setToken is only ever called with a non-empty    *)
(* string.                                                                 *)
(***************************************************************************)
EXTENDS Integers, Sequences, FiniteSets, TLC

(***************************************************************************)
(* String literals of the source.                                          *)
(***************************************************************************)
\* "http://localhost:8081"
GO_SERVER_URL ==
  <<"h","t","t","p",":","/","/","l","o","c","a","l","h","o","s","t",":","8","0","8","1">>

\* "/auth/login"
S_AuthLoginPath ==
  <<"/","a","u","t","h","/","l","o","g","i","n">>

\* "No token found. Please get your token from: "
S_NoTokenPrefix ==
  <<"N","o"," ","t","o","k","e","n"," ","f","o","u","n","d","."," ","P","l","e","a","s","e",
    " ","g","e","t"," ","y","o","u","r"," ","t","o","k","e","n"," ","f","r","o","m",":"," ">>

\* " and try your request again with the token."
S_NoTokenSuffix ==
  <<" ","a","n","d"," ","t","r","y"," ","y","o","u","r"," ","r","e","q","u","e","s","t"," ",
    "a","g","a","i","n"," ","w","i","t","h"," ","t","h","e"," ","t","o","k","e","n",".">>

\* "Token expired or invalid. Please get a new token from: "
S_TokenExpiredPrefix ==
  <<"T","o","k","e","n"," ","e","x","p","i","r","e","d"," ","o","r"," ","i","n","v","a","l",
    "i","d","."," ","P","l","e","a","s","e"," ","g","e","t"," ","a"," ","n","e","w"," ","t",
    "o","k","e","n"," ","f","r","o","m",":"," ">>

\* "Repository '"
S_Repository ==
  <<"R","e","p","o","s","i","t","o","r","y"," ","'">>

\* "' not found or not indexed. Attempted to index but failed: "
S_IndexFailedMid ==
  <<"'"," ","n","o","t"," ","f","o","u","n","d"," ","o","r"," ","n","o","t"," ","i","n","d",
    "e","x","e","d","."," ","A","t","t","e","m","p","t","e","d"," ","t","o"," ","i","n","d",
    "e","x"," ","b","u","t"," ","f","a","i","l","e","d",":"," ">>

\* "' not found or not indexed. Indexing has been started automatically. Please try your request again after indexing is complete."
S_IndexStartedTail ==
  <<"'"," ","n","o","t"," ","f","o","u","n","d"," ","o","r"," ","n","o","t"," ","i","n","d",
    "e","x","e","d","."," ","I","n","d","e","x","i","n","g"," ","h","a","s"," ","b","e","e",
    "n"," ","s","t","a","r","t","e","d"," ","a","u","t","o","m","a","t","i","c","a","l","l",
    "y","."," ","P","l","e","a","s","e"," ","t","r","y"," ","y","o","u","r"," ","r","e","q",
    "u","e","s","t"," ","a","g","a","i","n"," ","a","f","t","e","r"," ","i","n","d","e","x",
    "i","n","g"," ","i","s"," ","c","o","m","p","l","e","t","e",".">>

\* "' not found or not indexed after multiple attempts. Please try again later. Last error: "
S_MultipleAttemptsMid ==
  <<"'"," ","n","o","t"," ","f","o","u","n","d"," ","o","r"," ","n","o","t"," ","i","n","d",
    "e","x","e","d"," ","a","f","t","e","r"," ","m","u","l","t","i","p","l","e"," ","a","t",
    "t","e","m","p","t","s","."," ","P","l","e","a","s","e"," ","t","r","y"," ","a","g","a",
    "i","n"," ","l","a","t","e","r","."," ","L","a","s","t"," ","e","r","r","o","r",":"," ">>

\* "Request failed with status code "
S_RequestFailed ==
  <<"R","e","q","u","e","s","t"," ","f","a","i","l","e","d"," ","w","i","t","h"," ","s","t",
    "a","t","u","s"," ","c","o","d","e"," ">>

\* "connect ECONNREFUSED 127.0.0.1:8081"
S_ConnRefused ==
  <<"c","o","n","n","e","c","t"," ","E","C","O","N","N","R","E","F","U","S","E","D"," ","1",
    "2","7",".","0",".","0",".","1",":","8","0","8","1">>

\* "https://github.com/"
S_GithubPrefix ==
  <<"h","t","t","p","s",":","/","/","g","i","t","h","u","b",".","c","o","m","/">>

\* "http"
S_http ==
  <<"h","t","t","p">>

\* "not found"
S_notFound ==
  <<"n","o","t"," ","f","o","u","n","d">>

\* "not indexed"
S_notIndexed ==
  <<"n","o","t"," ","i","n","d","e","x","e","d">>

\* "/set-token"
S_SetTokenBare ==
  <<"/","s","e","t","-","t","o","k","e","n">>

\* faulty variant: the command prefix without its space
S_SetTokenCmd_NoSpace == S_SetTokenBare

\* "/set-token "
S_SetTokenCmd ==
  <<"/","s","e","t","-","t","o","k","e","n"," ">>

\* "/index-repo "
S_IndexRepoCmd ==
  <<"/","i","n","d","e","x","-","r","e","p","o"," ">>

\* "Token set! You can now use the chat."
S_TokenSet ==
  <<"T","o","k","e","n"," ","s","e","t","!"," ","Y","o","u"," ","c","a","n"," ","n","o","w",
    " ","u","s","e"," ","t","h","e"," ","c","h","a","t",".">>

\* "Please provide a token after /set-token."
S_ProvideToken ==
  <<"P","l","e","a","s","e"," ","p","r","o","v","i","d","e"," ","a"," ","t","o","k","e","n",
    " ","a","f","t","e","r"," ","/","s","e","t","-","t","o","k","e","n",".">>

\* "Please provide a repository URL after /index-repo."
S_ProvideRepo ==
  <<"P","l","e","a","s","e"," ","p","r","o","v","i","d","e"," ","a"," ","r","e","p","o","s",
    "i","t","o","r","y"," ","U","R","L"," ","a","f","t","e","r"," ","/","i","n","d","e","x",
    "-","r","e","p","o",".">>

\* "Indexing failed: "
S_IndexingFailed ==
  <<"I","n","d","e","x","i","n","g"," ","f","a","i","l","e","d",":"," ">>

\* "Indexing started for "
S_IndexingStartedFor ==
  <<"I","n","d","e","x","i","n","g"," ","s","t","a","r","t","e","d"," ","f","o","r"," ">>

\* ". I will notify you when it's ready."
S_NotifyTail ==
  <<"."," ","I"," ","w","i","l","l"," ","n","o","t","i","f","y"," ","y","o","u"," ","w","h",
    "e","n"," ","i","t","'","s"," ","r","e","a","d","y",".">>

\* "Error processing chat: "
S_ErrorProcessingChat ==
  <<"E","r","r","o","r"," ","p","r","o","c","e","s","s","i","n","g"," ","c","h","a","t",":"," ">>

\* "undefined"
S_undefined ==
  <<"u","n","d","e","f","i","n","e","d">>

\* "Repository Not Found"
MsgNotFound ==
  <<"R","e","p","o","s","i","t","o","r","y"," ","N","o","t"," ","F","o","u","n","d">>

\* "repo NOT indexed yet"
MsgNotIndexed ==
  <<"r","e","p","o"," ","N","O","T"," ","i","n","d","e","x","e","d"," ","y","e","t">>

\* "bad request"
MsgOther ==
  <<"b","a","d"," ","r","e","q","u","e","s","t">>

\* "t1"
T1 ==
  <<"t","1">>

\* "t2"
T2 ==
  <<"t","2">>

\* "o/w"
RepoShort ==
  <<"o","/","w">>

\* "hi"
M_Query ==
  <<"h","i">>

\* "main"
S_main ==
  <<"m","a","i","n">>

\* "{"
J_open ==
  <<"{">>

\* "}"
J_close ==
  <<"}">>

\* ","
J_comma ==
  <<",">>

\* """
J_quote ==
  <<"\"">>

\* ""error":true"
J_error ==
  <<"\"","e","r","r","o","r","\"",":","t","r","u","e">>

\* ""status":"
J_status ==
  <<"\"","s","t","a","t","u","s","\"",":">>

\* ""status_code":"
J_status_code ==
  <<"\"","s","t","a","t","u","s","_","c","o","d","e","\"",":">>

\* ""message":"
J_message ==
  <<"\"","m","e","s","s","a","g","e","\"",":">>

\* ""data":"
J_data ==
  <<"\"","d","a","t","a","\"",":">>

\* "["
J_lbracket ==
  <<"[">>

\* "]"
J_rbracket ==
  <<"]">>

\* "error"
S_error ==
  <<"e","r","r","o","r">>

\* "r1"
R1 ==
  <<"r","1">>

\* ""success":true"
J_success ==
  <<"\"","s","u","c","c","e","s","s","\"",":","t","r","u","e">>

\* "s3cret"
Secret ==
  <<"s","3","c","r","e","t">>

\* "Bearer "
S_Bearer ==
  <<"B","e","a","r","e","r"," ">>

\* "Search failed: "
S_SearchFailed ==
  <<"S","e","a","r","c","h"," ","f","a","i","l","e","d",":"," ">>

\* "Cannot read properties of undefined (reading 'indexRepository')"
S_TypeError ==
  <<"C","a","n","n","o","t"," ","r","e","a","d"," ","p","r","o","p","e","r","t","i","e",
    "s"," ","o","f"," ","u","n","d","e","f","i","n","e","d"," ","(","r","e","a","d","i",
    "n","g"," ","'","i","n","d","e","x","R","e","p","o","s","i","t","o","r","y","'",
    ")">>

\* "Repository indexing failed due to authentication (401 Unauthorized). Please resend the request with your token using /set-token <your_token> and try again."
S_IndexAuth401 ==
  <<"R","e","p","o","s","i","t","o","r","y"," ","i","n","d","e","x","i","n","g"," ","f",
    "a","i","l","e","d"," ","d","u","e"," ","t","o"," ","a","u","t","h","e","n","t","i",
    "c","a","t","i","o","n"," ","(","4","0","1"," ","U","n","a","u","t","h","o","r","i",
    "z","e","d",")","."," ","P","l","e","a","s","e"," ","r","e","s","e","n","d"," ","t",
    "h","e"," ","r","e","q","u","e","s","t"," ","w","i","t","h"," ","y","o","u","r"," ",
    "t","o","k","e","n"," ","u","s","i","n","g"," ","/","s","e","t","-","t","o","k","e",
    "n"," ","<","y","o","u","r","_","t","o","k","e","n",">"," ","a","n","d"," ","t","r",
    "y"," ","a","g","a","i","n",".">>

\* "Repository indexing failed: "
S_RepoIndexingFailed ==
  <<"R","e","p","o","s","i","t","o","r","y"," ","i","n","d","e","x","i","n","g"," ","f",
    "a","i","l","e","d",":"," ">>

\* "Failed to fetch repositories: "
S_FetchReposFailed ==
  <<"F","a","i","l","e","d"," ","t","o"," ","f","e","t","c","h"," ","r","e","p","o","s",
    "i","t","o","r","i","e","s",":"," ">>

\* "Failed to fetch profile: "
S_FetchProfileFailed ==
  <<"F","a","i","l","e","d"," ","t","o"," ","f","e","t","c","h"," ","p","r","o","f","i",
    "l","e",":"," ">>

\* "Unauthorized"
S_Unauthorized ==
  <<"U","n","a","u","t","h","o","r","i","z","e","d">>

\* "Request failed"
S_RequestFailedError ==
  <<"R","e","q","u","e","s","t"," ","f","a","i","l","e","d">>

\* "Internal server error"
S_InternalServerError ==
  <<"I","n","t","e","r","n","a","l"," ","s","e","r","v","e","r"," ","e","r","r","o",
    "r">>

\* "Unexpected end of JSON input"
S_JsonParseError ==
  <<"U","n","e","x","p","e","c","t","e","d"," ","e","n","d"," ","o","f"," ","J","S","O",
    "N"," ","i","n","p","u","t">>

\* "Cannot read properties of undefined (reading 'query')"
S_ReadingQuery ==
  <<"C","a","n","n","o","t"," ","r","e","a","d"," ","p","r","o","p","e","r","t","i","e",
    "s"," ","o","f"," ","u","n","d","e","f","i","n","e","d"," ","(","r","e","a","d","i",
    "n","g"," ","'","q","u","e","r","y","'",")">>

\* "Cannot read properties of undefined (reading 'repoUrl')"
S_ReadingRepoUrl ==
  <<"C","a","n","n","o","t"," ","r","e","a","d"," ","p","r","o","p","e","r","t","i","e",
    "s"," ","o","f"," ","u","n","d","e","f","i","n","e","d"," ","(","r","e","a","d","i",
    "n","g"," ","'","r","e","p","o","U","r","l","'",")">>

\* "request to "
S_FetchFailedPrefix ==
  <<"r","e","q","u","e","s","t"," ","t","o"," ">>

\* " failed, reason: "
S_FetchFailedMid ==
  <<" ","f","a","i","l","e","d",","," ","r","e","a","s","o","n",":"," ">>

\* "/search"
S_search ==
  <<"/","s","e","a","r","c","h">>

\* "/search/summary"
S_searchSummary ==
  <<"/","s","e","a","r","c","h","/","s","u","m","m","a","r","y">>

\* "/index"
S_index ==
  <<"/","i","n","d","e","x">>

\* "/repositories"
S_repositories ==
  <<"/","r","e","p","o","s","i","t","o","r","i","e","s">>

\* "/profile"
S_profile ==
  <<"/","p","r","o","f","i","l","e">>

\* "/vector-search"
S_vectorSearchPath ==
  <<"/","v","e","c","t","o","r","-","s","e","a","r","c","h">>

\* "/index-repository"
S_indexRepositoryPath ==
  <<"/","i","n","d","e","x","-","r","e","p","o","s","i","t","o","r","y">>

(***************************************************************************)
(* JavaScript string operations, on sequences of characters.               *)
(***************************************************************************)
Lower(c) ==
  CASE c = "A" -> "a" [] c = "B" -> "b" [] c = "C" -> "c" [] c = "D" -> "d"
    [] c = "E" -> "e" [] c = "F" -> "f" [] c = "G" -> "g" [] c = "H" -> "h"
    [] c = "I" -> "i" [] c = "J" -> "j" [] c = "K" -> "k" [] c = "L" -> "l"
    [] c = "M" -> "m" [] c = "N" -> "n" [] c = "O" -> "o" [] c = "P" -> "p"
    [] c = "Q" -> "q" [] c = "R" -> "r" [] c = "S" -> "s" [] c = "T" -> "t"
    [] c = "U" -> "u" [] c = "V" -> "v" [] c = "W" -> "w" [] c = "X" -> "x"
    [] c = "Y" -> "y" [] c = "Z" -> "z" [] OTHER -> c

toLowerCase(s) == [i \in 1..Len(s) |-> Lower(s[i])]

includes(s, sub) ==
  \E i \in 0..(Len(s) - Len(sub)) : SubSeq(s, i + 1, i + Len(sub)) = sub

startsWith(s, prefix) ==
  Len(s) >= Len(prefix) /\ SubSeq(s, 1, Len(prefix)) = prefix

slice(s, n) == SubSeq(s, n + 1, Len(s))

\* the white space String.prototype.trim removes, as far as the messages
\* of the model have it
WhiteSpace == {" ", "\t", "\n"}

RECURSIVE trimStart(_)
trimStart(s) ==
  IF s # <<>> /\ Head(s) \in WhiteSpace THEN trimStart(Tail(s)) ELSE s

RECURSIVE trimEnd(_)
trimEnd(s) ==
  IF s # <<>> /\ s[Len(s)] \in WhiteSpace
    THEN trimEnd(SubSeq(s, 1, Len(s) - 1))
    ELSE s

trim(s) == trimEnd(trimStart(s))

Digit(d) == <<"0", "1", "2", "3", "4", "5", "6", "7", "8", "9">>[d + 1]

\* String(n) for the three-digit HTTP status codes
StatusText(n) == <<Digit(n \div 100), Digit((n \div 10) % 10), Digit(n % 10)>>

(***************************************************************************)
(* Backend responses.  A body is the decoded JSON of a response: obj says  *)
(* whether it is an object; a field that is FALSE, 0 or <<>> is absent.    *)
(* status = 0 is a request that failed without any HTTP response.          *)
(***************************************************************************)
Body(obj, error, status, status_code, message, success, data) ==
  [obj |-> obj, error |-> error, status |-> status, status_code |-> status_code,
   message |-> message, success |-> success, data |-> data]

NoBody == Body(FALSE, FALSE, <<>>, 0, <<>>, FALSE, <<>>)
BodyResults == Body(TRUE, FALSE, <<>>, 0, <<>>, TRUE, <<R1>>)
BodyEmpty == Body(TRUE, FALSE, <<>>, 0, <<>>, TRUE, <<>>)
BodyAccepted == Body(TRUE, FALSE, <<>>, 0, <<>>, FALSE, <<>>)
BodyErrorFlag == Body(TRUE, TRUE, <<>>, 0, MsgOther, FALSE, <<>>)
BodyStatusError == Body(TRUE, FALSE, S_error, 0, MsgOther, FALSE, <<>>)
BodyCode500 == Body(TRUE, FALSE, <<>>, 500, <<>>, FALSE, <<>>)
BodyMsgNotFound == Body(TRUE, FALSE, <<>>, 0, MsgNotFound, FALSE, <<>>)
BodyMsgNotIndexed == Body(TRUE, FALSE, <<>>, 0, MsgNotIndexed, FALSE, <<>>)
BodyMsgOther == Body(TRUE, FALSE, <<>>, 0, MsgOther, FALSE, <<>>)

\* a body that is a JSON array
ArrayBody(items) == [array |-> items]

Response(status, body) == [status |-> status, body |-> body]

NoResp == Response(-1, NoBody)
NoResponse == Response(0, NoBody)

\* the error responses: each status with a body that names the repository as
\* missing and with one that does not
ErrorResponses ==
  {Response(400, BodyMsgNotFound), Response(400, BodyMsgNotIndexed),
   Response(400, BodyMsgOther), Response(400, NoBody),
   Response(401, BodyMsgNotFound), Response(401, BodyMsgOther),
   Response(403, BodyMsgNotFound), Response(403, NoBody),
   Response(404, BodyMsgNotFound), Response(404, NoBody),
   Response(500, BodyMsgOther)}
OkBodies ==
  {BodyResults, BodyEmpty, BodyErrorFlag, BodyStatusError, BodyCode500, BodyMsgNotFound}

SearchResponses ==
  {Response(200, b) : b \in OkBodies}
    \cup ErrorResponses
    \cup {NoResponse}

IndexResponses ==
  {Response(200, BodyAccepted), Response(200, BodyStatusError), Response(200, BodyErrorFlag),
   Response(401, NoBody), Response(403, BodyMsgOther), Response(500, NoBody), NoResponse}

\* axios resolves a response whose status is 2xx and rejects every other one
IsOk(r) == r.status >= 200 /\ r.status < 300

\* error.message of the rejection axios makes of response r
ErrorMessage(r) ==
  IF r.status = 0 THEN S_ConnRefused ELSE S_RequestFailed \o StatusText(r.status)

(***************************************************************************)
(* Credential store and protected call executor.                           *)
(***************************************************************************)
NoToken == <<>>
Tokens == {T1, T2}

AUTH_LOGIN_URL == GO_SERVER_URL \o S_AuthLoginPath

NoTokenMessage == S_NoTokenPrefix \o AUTH_LOGIN_URL \o S_NoTokenSuffix
TokenExpiredMessage == S_TokenExpiredPrefix \o AUTH_LOGIN_URL

\* what protectedAxios returns without a token, and after a 401/403
NoTokenResult == Body(TRUE, TRUE, <<>>, 0, NoTokenMessage, FALSE, <<>>)
TokenExpiredResult == Body(TRUE, TRUE, <<>>, 0, TokenExpiredMessage, FALSE, <<>>)

\* faulty variant: a token that is already stored is kept
setToken_OnlyWhenAbsent(stored, token) == IF stored = NoToken THEN token ELSE stored

\* setToken(token), lines 58-60: the new value of OAUTH_TOKEN; stored is the
\* value it replaces
setToken(stored, token) == token

\* faulty variant: the store is set to the text "null"
clearToken_TextNull == <<"n", "u", "l", "l">>

\* clearToken(), lines 62-64: the new value of OAUTH_TOKEN
clearToken == NoToken

\* getAuthHeader(), lines 66-68: the mapping spread into the headers of a
\* request, <<>> for the empty mapping
getAuthHeader(token) ==
  IF token # NoToken THEN [Authorization |-> S_Bearer \o token] ELSE <<>>

\* faulty variant: the executor does not test the token
Refused_Never(token) == FALSE

\* protectedAxios, line 74: the call is refused without a token
Refused(token) == token = NoToken

\* faulty variant: status 403 does not clear the token
IsAuthFailure_Only401(r) == r.status = 401

\* faulty variant: every error status clears the token
IsAuthFailure_AnyStatus(r) == r.status >= 400

\* protectedAxios, line 85: the statuses that clear the token
IsAuthFailure(r) == r.status = 401 \/ r.status = 403

\* protectedAxios on a response: "return" response.data, "clear" the token
\* and return the token-expired object, or "throw" the error
Outcome(r) ==
  IF IsOk(r) THEN "return" ELSE IF IsAuthFailure(r) THEN "clear" ELSE "throw"

(***************************************************************************)
(* Conditions of the tool handlers.                                        *)
(***************************************************************************)
\* faulty variant: a result without any hit asks for indexing too
NeedsIndexing_OrEmpty(result) ==
  \/ result.error
  \/ result.status = S_error
  \/ result.status_code = 500
  \/ (result.message # <<>> /\ includes(toLowerCase(result.message), S_notFound))
  \/ result.data = <<>>

\* chat line 265, vectorSearch line 362: the result asks for indexing
NeedsIndexing(result) ==
  \/ result.error
  \/ result.status = S_error
  \/ result.status_code = 500
  \/ (result.message # <<>> /\ includes(toLowerCase(result.message), S_notFound))

\* vectorSearchWithSummary lines 448-456
NotFound(r) ==
  IF r.status > 0 /\ r.body.obj
    THEN LET msg == toLowerCase(r.body.message)
         IN  includes(msg, S_notFound) \/ includes(msg, S_notIndexed)
    ELSE includes(toLowerCase(ErrorMessage(r)), S_notFound)

\* faulty variant: every failed search asks for indexing
NeedsIndexingSummary_AnyFailure(r) == TRUE

\* vectorSearchWithSummary line 457
NeedsIndexingSummary(r) ==
  NotFound(r) \/ (r.status > 0 /\ (r.status = 404 \/ r.status = 500))

\* faulty variant: a result with status 'error' counts as accepted
IndexFailed_ErrorOnly(indexResult) == indexResult.error

\* lines 373, 469: the index call failed
IndexFailed(indexResult) == indexResult.error \/ indexResult.status = S_error

\* faulty variant: the reference is used as it is
toFullUrl_Identity(repository) == repository

\* faulty variant: the prefix is added without the test
toFullUrl_AlwaysPrefix(repository) == S_GithubPrefix \o repository

\* lines 365-367, 461-463, 211-213, 268-270
toFullUrl(repository) ==
  IF ~startsWith(repository, S_http) THEN S_GithubPrefix \o repository ELSE repository

\* the attempts of the loop of vectorSearchWithSummary, line 428
MaxAttempts == 6

\* faulty variant: one retry fewer
LastRetry_Short == MaxAttempts - 2

\* line 483: attempts below this one are followed by a wait and a retry
LastRetry == 5

(***************************************************************************)
(* Texts of the response envelopes.                                        *)
(***************************************************************************)
RECURSIVE Join(_)
Join(parts) ==
  IF parts = <<>> THEN <<>>
  ELSE IF Len(parts) = 1 THEN parts[1]
  ELSE parts[1] \o J_comma \o Join(Tail(parts))

Quoted(s) == J_quote \o s \o J_quote

\* JSON.stringify of a body, fields in the order of the record, without the
\* white space of the indentation
JSONstringify(b) ==
  IF "array" \in DOMAIN b
    THEN J_lbracket \o Join([i \in 1..Len(b.array) |-> Quoted(b.array[i])]) \o J_rbracket
  ELSE IF ~b.obj THEN Quoted(b.message)
  ELSE J_open
       \o Join((IF b.error THEN <<J_error>> ELSE <<>>)
            \o (IF b.status # <<>> THEN <<J_status \o Quoted(b.status)>> ELSE <<>>)
            \o (IF b.status_code # 0
                  THEN <<J_status_code \o StatusText(b.status_code)>> ELSE <<>>)
            \o (IF b.message # <<>> THEN <<J_message \o Quoted(b.message)>> ELSE <<>>)
            \o (IF b.success
                  THEN <<J_success,
                         J_data \o J_lbracket
                           \o Join([i \in 1..Len(b.data) |-> Quoted(b.data[i])])
                           \o J_rbracket>>
                  ELSE <<>>))
       \o J_close

\* an absent message interpolates as "undefined"
Interpolate(m) == IF m = <<>> THEN S_undefined ELSE m

IndexFailedText(repo, indexResult) ==
  S_Repository \o repo \o S_IndexFailedMid \o Interpolate(indexResult.message)

IndexStartedText(repo) == S_Repository \o repo \o S_IndexStartedTail

MultipleAttemptsText(repo, errorMessage) ==
  S_Repository \o repo \o S_MultipleAttemptsMid \o errorMessage

ChatErrorText(errorMessage) ==
  JSONstringify(Body(TRUE, FALSE, S_error, 0, S_ErrorProcessingChat \o errorMessage,
                     FALSE, <<>>))

CommandFailedText(indexResult) == S_IndexingFailed \o Interpolate(indexResult.message)

CommandStartedText(repoUrl) == S_IndexingStartedFor \o repoUrl \o S_NotifyTail

\* the envelope {content: [{type: 'text', text}], isError}; thrown marks a
\* handler whose promise rejected with an error of message text
Envelope(text) == [text |-> text, isError |-> FALSE, thrown |-> FALSE]
ErrorEnvelope(text) == [text |-> text, isError |-> TRUE, thrown |-> FALSE]
Thrown(errorMessage) == [text |-> errorMessage, isError |-> FALSE, thrown |-> TRUE]
NoRet == [text |-> <<>>, isError |-> FALSE, thrown |-> FALSE]

(***************************************************************************)
(* Requests.                                                               *)
(***************************************************************************)
Request(op, url, via, auth, fields, repo, repo_url, branch) ==
  [op |-> op, url |-> url, via |-> via, auth |-> auth, fields |-> fields,
   repository |-> repo, repo_url |-> repo_url, branch |-> branch,
   xMcpToken |-> <<>>, query |-> <<>>]

\* request r with the field query of its body
WithQuery(r, query) == [r EXCEPT !.query = query]

NoReq == Request("none", "", "", <<>>, {}, <<>>, <<>>, <<>>)

\* lines 323-331 and 356-360
SearchRequest(token, repo) ==
  Request("search", "/search", "protectedAxios", getAuthHeader(token),
          {"query", "repository", "limit"}, repo, <<>>, <<>>)

\* lines 431-436
SummaryRequest(token, repo, branch) ==
  Request("search", "/search/summary", "axios", getAuthHeader(token),
          {"query", "repository", "limit", "branch"}, repo, <<>>, branch)

\* faulty variant: the text after the command is sent as a search
IndexRequest_AsSearch(token, repoUrl) == SearchRequest(token, repoUrl)

\* lines 215-219, 271-275, 368-372, 464-468
IndexRequest(token, repoUrl) ==
  Request("index", "/index", "protectedAxios", getAuthHeader(token),
          {"repo_url"}, <<>>, repoUrl, <<>>)

(***************************************************************************)
(* State.                                                                  *)
(***************************************************************************)
\* Two invocations are in progress at a time: slot A runs the search tools and
\* slot B, concurrently, the chat tool (its commands and its searches).
Procs == {"A", "B"}

Runs(p) == IF p = "A" THEN {"vectorSearch", "vectorSearchWithSummary"} ELSE {"chat"}

RepoFull == S_GithubPrefix \o RepoShort
Repos == {RepoShort, RepoFull}
ChatRepos == {RepoShort}

M_SetT1 == S_SetTokenCmd \o T1
M_SetT2 == S_SetTokenCmd \o T2
M_IndexRepo == S_IndexRepoCmd \o RepoShort
ChatMessages == {M_SetT1, M_SetT2, M_IndexRepo, M_Query}

\* the HTTP response of the route POST /mcp: res.status(status).json(json)
HttpResponse(status, json) == [status |-> status, json |-> json]
NoRes == HttpResponse(0, <<>>)

\* the HTTP request of the route POST /mcp: req.headers.authorization (<<>>
\* when the header is missing), req.body.tool and whether req.body.params is
\* an object
HttpRequest(authorization, t, hasParams) ==
  [authorization |-> authorization, tool |-> t, hasParams |-> hasParams]

NoHttpReq == HttpRequest(<<>>, "", FALSE)

VARIABLES
  OAUTH_TOKEN,  \* the credential store
  tool,         \* the tool each invocation runs, "none" when it runs nothing
  pc,           \* idle, search / index (awaiting that response), delay, done
  message,      \* chat: the message; the other tools: the query
  repository,   \* the repository argument
  attempt,      \* vectorSearchWithSummary: the loop counter
  indexed,      \* vectorSearchWithSummary: the indexed flag
  lastError,    \* vectorSearchWithSummary: the message of lastError
  req,          \* the request in flight
  resp,         \* the response that has arrived and is being handled
  ret,          \* the envelope the handler returned
  trace,        \* the requests sent and waits started by this run, in order
  all404,       \* every search response of this run so far had status 404
  argRepoUrl,   \* the repoUrl argument, <<>> when it is not given
  res,          \* POST /mcp: the HTTP response the route sent
  httpReq,      \* POST /mcp: the HTTP request the route received
  retries,      \* connectToGoServer: its argument
  MCP_SECRET_TOKEN,  \* the shared secret of the configuration, <<>> when unset
  calls         \* the calls a driver of one function alone has made

vars ==
  <<OAUTH_TOKEN, tool, pc, message, repository, attempt, indexed, lastError,
    req, resp, ret, trace, all404, argRepoUrl, res, httpReq, retries,
    MCP_SECRET_TOKEN,
    calls>>

hasToken == OAUTH_TOKEN # NoToken

\* the local state of invocation p
Local(p) ==
  [tool |-> tool[p], pc |-> pc[p], message |-> message[p],
   repository |-> repository[p], attempt |-> attempt[p], indexed |-> indexed[p],
   lastError |-> lastError[p], req |-> req[p], resp |-> resp[p], ret |-> ret[p],
   trace |-> trace[p], all404 |-> all404[p], repoUrl |-> argRepoUrl[p], res |-> res[p],
   httpReq |-> httpReq[p], retries |-> retries[p]]

Idle ==
  [tool |-> "none", pc |-> "idle", message |-> <<>>, repository |-> <<>>,
   attempt |-> 0, indexed |-> FALSE, lastError |-> <<>>, req |-> NoReq,
   resp |-> NoResp, ret |-> NoRet, trace |-> <<>>, all404 |-> TRUE,
   repoUrl |-> <<>>, res |-> NoRes, httpReq |-> NoHttpReq,
   retries |-> 0]

\* a step of invocation p: its next local state and the next token
Step(l, tok) == [l |-> l, tok |-> tok]

Apply(p, s) ==
  /\ OAUTH_TOKEN' = s.tok
  /\ tool' = [tool EXCEPT ![p] = s.l.tool]
  /\ pc' = [pc EXCEPT ![p] = s.l.pc]
  /\ message' = [message EXCEPT ![p] = s.l.message]
  /\ repository' = [repository EXCEPT ![p] = s.l.repository]
  /\ attempt' = [attempt EXCEPT ![p] = s.l.attempt]
  /\ indexed' = [indexed EXCEPT ![p] = s.l.indexed]
  /\ lastError' = [lastError EXCEPT ![p] = s.l.lastError]
  /\ req' = [req EXCEPT ![p] = s.l.req]
  /\ resp' = [resp EXCEPT ![p] = s.l.resp]
  /\ ret' = [ret EXCEPT ![p] = s.l.ret]
  /\ trace' = [trace EXCEPT ![p] = s.l.trace]
  /\ all404' = [all404 EXCEPT ![p] = s.l.all404]
  /\ argRepoUrl' = [argRepoUrl EXCEPT ![p] = s.l.repoUrl]
  /\ res' = [res EXCEPT ![p] = s.l.res]
  /\ httpReq' = [httpReq EXCEPT ![p] = s.l.httpReq]
  /\ retries' = [retries EXCEPT ![p] = s.l.retries]
  /\ UNCHANGED <<MCP_SECRET_TOKEN, calls>>

Init ==
  /\ OAUTH_TOKEN = NoToken
  /\ tool = [p \in Procs |-> Idle.tool]
  /\ pc = [p \in Procs |-> Idle.pc]
  /\ message = [p \in Procs |-> Idle.message]
  /\ repository = [p \in Procs |-> Idle.repository]
  /\ attempt = [p \in Procs |-> Idle.attempt]
  /\ indexed = [p \in Procs |-> Idle.indexed]
  /\ lastError = [p \in Procs |-> Idle.lastError]
  /\ req = [p \in Procs |-> Idle.req]
  /\ resp = [p \in Procs |-> Idle.resp]
  /\ ret = [p \in Procs |-> Idle.ret]
  /\ trace = [p \in Procs |-> Idle.trace]
  /\ all404 = [p \in Procs |-> Idle.all404]
  /\ argRepoUrl = [p \in Procs |-> Idle.repoUrl]
  /\ res = [p \in Procs |-> Idle.res]
  /\ httpReq = [p \in Procs |-> Idle.httpReq]
  /\ retries = [p \in Procs |-> Idle.retries]
  /\ MCP_SECRET_TOKEN = Secret
  /\ calls = <<>>

\* the handler returns envelope e
finish(l, e) ==
  [l EXCEPT !.pc = "done", !.ret = e, !.req = NoReq, !.resp = NoResp,
            !.attempt = 0, !.indexed = FALSE, !.lastError = <<>>]

\* the handler sends request r and awaits its response
send(l, r) == [l EXCEPT !.pc = r.op, !.req = r, !.resp = NoResp, !.trace = Append(@, r.op)]

\* faulty variant: the promise of delay is never resolved
wait_NeverResolves(l) ==
  [l EXCEPT !.pc = "pending", !.req = NoReq, !.resp = NoResp, !.trace = Append(@, "wait")]

\* the handler awaits delay(10000)
wait(l) ==
  [l EXCEPT !.pc = "delay", !.req = NoReq, !.resp = NoResp, !.trace = Append(@, "wait")]

(***************************************************************************)
(* Handlers.  The code between two awaits on the network or the timer runs *)
(* without interruption (one event loop); each definition below is one     *)
(* such stretch, as a function from the local state l and the token tok to *)
(* the next ones.                                                          *)
(***************************************************************************)
\* faulty variant: the handler does not test the token
HandlerRefuses_Never(tok) == FALSE

\* lines 251, 345, 413: the handler's own test of the token
HandlerRefuses(tok) == tok = NoToken

\* protectedAxios, lines 80-93, on response r of a request that was sent
Protected(r, tok) ==
  [threw |-> Outcome(r) = "throw",
   result |-> IF Outcome(r) = "clear" THEN TokenExpiredResult ELSE r.body,
   tok |-> IF Outcome(r) = "clear" THEN clearToken ELSE tok]

\* ---- vectorSearch, lines 344-400

\* faulty variant: after an accepted index call the search is sent again
vectorSearchAfterIndex_Retry(l, indexResult, tok) ==
  IF IndexFailed(indexResult)
    THEN Step(finish(l, Envelope(IndexFailedText(l.repository, indexResult))), tok)
    ELSE Step(send(l, WithQuery(SearchRequest(tok, l.repository), l.message)), tok)

\* lines 373-390
vectorSearchAfterIndex(l, indexResult, tok) ==
  IF IndexFailed(indexResult)
    THEN Step(finish(l, Envelope(IndexFailedText(l.repository, indexResult))), tok)
    ELSE Step(finish(l, Envelope(IndexStartedText(l.repository))), tok)

\* lines 361-399
vectorSearchAfterSearch(l, result, tok) ==
  IF NeedsIndexing(result)
    THEN IF Refused(tok)
           THEN vectorSearchAfterIndex(l, NoTokenResult, tok)
           ELSE Step(send(l, IndexRequest(tok, toFullUrl(l.repository))), tok)
    ELSE Step(finish(l, Envelope(JSONstringify(result))), tok)

\* lines 344-360
vectorSearchStart(l, tok) ==
  IF HandlerRefuses(tok) THEN Step(finish(l, Envelope(NoTokenMessage)), tok)
  ELSE IF Refused(tok) THEN vectorSearchAfterSearch(l, NoTokenResult, tok)
  ELSE Step(send(l, WithQuery(SearchRequest(tok, l.repository), l.message)), tok)

vectorSearchOnResponse(l, r, tok) ==
  LET pa == Protected(r, tok)
  IN  IF pa.threw THEN Step(finish(l, Thrown(ErrorMessage(r))), tok)
      ELSE IF l.pc = "search" THEN vectorSearchAfterSearch(l, pa.result, pa.tok)
      ELSE vectorSearchAfterIndex(l, pa.result, pa.tok)

\* ---- chat, lines 172-318

\* lines 220-248
chatCommandAfterIndex(l, indexResult, tok) ==
  IF indexResult.error \/ indexResult.status = S_error
    THEN Step(finish(l, Envelope(CommandFailedText(indexResult))), tok)
    ELSE Step(finish(l, Envelope(CommandStartedText(
                toFullUrl(trim(slice(trim(l.message), 11)))))), tok)

\* lines 276-293
chatAfterIndex(l, indexResult, tok) ==
  IF IndexFailed(indexResult)
    THEN Step(finish(l, Envelope(IndexFailedText(l.repository, indexResult))), tok)
    ELSE Step(finish(l, Envelope(IndexStartedText(l.repository))), tok)

\* lines 264-302
chatAfterSearch(l, result, tok) ==
  IF NeedsIndexing(result)
    THEN IF Refused(tok)
           THEN chatAfterIndex(l, NoTokenResult, tok)
           ELSE Step(send(l, IndexRequest(tok, toFullUrl(l.repository))), tok)
    ELSE Step(finish(l, Envelope(JSONstringify(result))), tok)

\* lines 173-263
chatStart(l, tok) ==
  LET msg == trim(l.message)
  IN  IF startsWith(msg, S_SetTokenCmd)
        THEN LET token == trim(slice(msg, 11))
             IN  IF token # <<>>
                   THEN Step(finish(l, Envelope(S_TokenSet)), setToken(tok, token))
                   ELSE Step(finish(l, Envelope(S_ProvideToken)), tok)
      ELSE IF startsWith(msg, S_IndexRepoCmd)
        THEN LET repoUrl == trim(slice(msg, 11))
             IN  IF repoUrl = <<>>
                   THEN Step(finish(l, Envelope(S_ProvideRepo)), tok)
                 ELSE IF Refused(tok)
                   THEN chatCommandAfterIndex(l, NoTokenResult, tok)
                 ELSE Step(send(l, IndexRequest(tok, toFullUrl(repoUrl))), tok)
      ELSE IF HandlerRefuses(tok)
        THEN Step(finish(l, Envelope(NoTokenMessage)), tok)
      ELSE IF Refused(tok) THEN chatAfterSearch(l, NoTokenResult, tok)
      ELSE Step(send(l, WithQuery(SearchRequest(tok, l.repository), l.message)), tok)

chatOnResponse(l, r, tok) ==
  LET pa == Protected(r, tok)
  IN  IF startsWith(trim(l.message), S_IndexRepoCmd)
        THEN IF pa.threw THEN Step(finish(l, Thrown(ErrorMessage(r))), tok)
             ELSE chatCommandAfterIndex(l, pa.result, pa.tok)
      ELSE IF pa.threw
        THEN Step(finish(l, ErrorEnvelope(ChatErrorText(ErrorMessage(r)))), tok)
      ELSE IF l.pc = "search" THEN chatAfterSearch(l, pa.result, pa.tok)
      ELSE chatAfterIndex(l, pa.result, pa.tok)

\* ---- vectorSearchWithSummary, lines 412-502

\* lines 492-501
summaryBreak(l) ==
  finish(l, Envelope(MultipleAttemptsText(l.repository, l.lastError)))

\* lines 428-444: the head of the loop and the search of one attempt
summaryLoop(l, tok) ==
  IF l.attempt < MaxAttempts
    THEN Step(send(l, WithQuery(SummaryRequest(tok, l.repository, S_main), l.message)), tok)
    ELSE Step(summaryBreak(l), tok)

\* faulty variant: the indexed flag is never set
summaryAfterIndex_KeepsFlag(l, indexResult, tok) ==
  IF IndexFailed(indexResult)
    THEN Step(finish(l, Envelope(IndexFailedText(l.repository, indexResult))), tok)
    ELSE Step(wait(l), tok)

\* faulty variant: the search is retried at once, without the delay
summaryAfterIndex_NoDelay(l, indexResult, tok) ==
  IF IndexFailed(indexResult)
    THEN Step(finish(l, Envelope(IndexFailedText(l.repository, indexResult))), tok)
    ELSE summaryLoop([l EXCEPT !.indexed = TRUE, !.attempt = @ + 1], tok)

\* lines 469-482
summaryAfterIndex(l, indexResult, tok) ==
  IF IndexFailed(indexResult)
    THEN Step(finish(l, Envelope(IndexFailedText(l.repository, indexResult))), tok)
    ELSE Step(wait([l EXCEPT !.indexed = TRUE]), tok)

\* lines 445-490
summaryCatch(l, r, tok) ==
  LET l1 == [l EXCEPT !.lastError = ErrorMessage(r)]
  IN  IF NeedsIndexingSummary(r)
        THEN IF ~l1.indexed
               THEN IF Refused(tok)
                      THEN summaryAfterIndex(l1, NoTokenResult, tok)
                      ELSE Step(send(l1, IndexRequest(tok, toFullUrl(l1.repository))),
                                tok)
             ELSE IF l1.attempt < LastRetry THEN Step(wait(l1), tok)
             ELSE Step(summaryBreak(l1), tok)
        ELSE Step(summaryBreak(l1), tok)

\* faulty variant: the loop counter starts at 1
summaryStart_FromOne(l, tok) ==
  IF HandlerRefuses(tok) THEN Step(finish(l, Envelope(NoTokenMessage)), tok)
  ELSE summaryLoop([l EXCEPT !.attempt = 1, !.indexed = FALSE, !.lastError = <<>>], tok)

\* lines 412-428
summaryStart(l, tok) ==
  IF HandlerRefuses(tok) THEN Step(finish(l, Envelope(NoTokenMessage)), tok)
  ELSE summaryLoop([l EXCEPT !.attempt = 0, !.indexed = FALSE, !.lastError = <<>>], tok)

summaryOnResponse(l, r, tok) ==
  IF l.pc = "search"
    THEN IF IsOk(r) THEN Step(finish(l, Envelope(JSONstringify(r.body))), tok)
         ELSE summaryCatch(l, r, tok)
    ELSE LET pa == Protected(r, tok)
         IN  IF pa.threw THEN Step(finish(l, Thrown(ErrorMessage(r))), tok)
             ELSE summaryAfterIndex(l, pa.result, pa.tok)

\* continue: attempt++ and the head of the loop
summaryDelayElapsed(l, tok) == summaryLoop([l EXCEPT !.attempt = @ + 1], tok)

(***************************************************************************)
(* Actions.                                                                *)
(***************************************************************************)
\* faulty variant: a wait blocks the event loop until its time is over
Quiet_NoneWaiting == \A q \in Procs : resp[q] = NoResp /\ pc[q] # "delay"

\* no continuation is running: a response that has arrived is handled in
\* the same turn of the event loop, before any other callback
Quiet == \A q \in Procs : resp[q] = NoResp

Invoke(p, t, msg, repo) ==
  [Local(p) EXCEPT !.tool = t, !.message = msg, !.repository = repo]

Chat(p) ==
  /\ Quiet /\ pc[p] = "idle" /\ "chat" \in Runs(p)
  /\ \E msg \in ChatMessages, repo \in ChatRepos :
       Apply(p, chatStart(Invoke(p, "chat", msg, repo), OAUTH_TOKEN))

VectorSearch(p) ==
  /\ Quiet /\ pc[p] = "idle" /\ "vectorSearch" \in Runs(p)
  /\ \E repo \in Repos :
       Apply(p, vectorSearchStart(Invoke(p, "vectorSearch", M_Query, repo), OAUTH_TOKEN))

VectorSearchWithSummary(p) ==
  /\ Quiet /\ pc[p] = "idle" /\ "vectorSearchWithSummary" \in Runs(p)
  /\ \E repo \in Repos :
       Apply(p, summaryStart(Invoke(p, "vectorSearchWithSummary", M_Query, repo),
                             OAUTH_TOKEN))

\* the backend answers the request in flight, or the request fails
Deliver(p) ==
  /\ Quiet /\ pc[p] \in {"search", "index"}
  /\ \E r \in (IF req[p].op = "index" THEN IndexResponses ELSE SearchResponses) :
       resp' = [resp EXCEPT ![p] = r]
  /\ UNCHANGED <<OAUTH_TOKEN, tool, pc, message, repository, attempt, indexed,
                 lastError, req, ret, trace, all404, argRepoUrl, res, httpReq, retries,
                 MCP_SECRET_TOKEN, calls>>

\* the local state as the continuation finds it
Arrived(p) ==
  [Local(p) EXCEPT !.all404 = IF pc[p] = "search" THEN @ /\ resp[p].status = 404 ELSE @]

ChatContinue(p) ==
  /\ resp[p] # NoResp /\ tool[p] = "chat"
  /\ Apply(p, chatOnResponse(Arrived(p), resp[p], OAUTH_TOKEN))

VectorSearchContinue(p) ==
  /\ resp[p] # NoResp /\ tool[p] = "vectorSearch"
  /\ Apply(p, vectorSearchOnResponse(Arrived(p), resp[p], OAUTH_TOKEN))

SummaryContinue(p) ==
  /\ resp[p] # NoResp /\ tool[p] = "vectorSearchWithSummary"
  /\ Apply(p, summaryOnResponse(Arrived(p), resp[p], OAUTH_TOKEN))

\* the timer of delay(10000) fires
DelayElapsed(p) ==
  /\ Quiet /\ pc[p] = "delay"
  /\ Apply(p, summaryDelayElapsed(Local(p), OAUTH_TOKEN))

\* the envelope has gone to the caller; the slot is free for another call
Return(p) ==
  /\ Quiet /\ pc[p] = "done"
  /\ Apply(p, Step(Idle, OAUTH_TOKEN))

Next ==
  \E p \in Procs :
    \/ Chat(p)
    \/ VectorSearch(p)
    \/ VectorSearchWithSummary(p)
    \/ Deliver(p)
    \/ ChatContinue(p)
    \/ VectorSearchContinue(p)
    \/ SummaryContinue(p)
    \/ DelayElapsed(p)
    \/ Return(p)

Spec == Init /\ [][Next]_vars

(***************************************************************************)
(* The tools that call the backend without the credential store            *)
(* (indexRepository, repositories, profile) and the route POST /mcp of the *)
(* HTTP transport.  They run in slot A, next to a chat invocation in B.    *)
(***************************************************************************)
ToolProcs == {"A"}

\* the answers to the GET requests of the tools and to the forwarded requests
\* of the route; a body that is no object is a text that is no JSON
PlainResponses ==
  {Response(200, BodyResults), Response(200, NoBody), Response(401, NoBody),
   Response(404, BodyMsgNotFound), NoResponse}

\* lines 47-53, part_000 lines 60-66: the X-MCP-Token header of axiosConfig,
\* <<>> when the configuration has no secret and the header is not set
axiosConfig == IF MCP_SECRET_TOKEN # <<>> THEN MCP_SECRET_TOKEN ELSE <<>>

\* request r sent with axiosConfig
WithAxiosConfig(r) == [r EXCEPT !.xMcpToken = axiosConfig]

\* lines 515-518
IndexRepositoryRequest(url, branch) ==
  WithAxiosConfig(Request("index", "/index", "axios", <<>>, {"repo_url", "branch"},
                          <<>>, url, branch))

\* lines 568 and 601
GetRequest(url) ==
  WithAxiosConfig(Request("get", url, "axios", <<>>, {}, <<>>, <<>>, <<>>))

\* the text of {status: 'error', message: prefix + errorMessage}
FailureText(prefix, errorMessage) ==
  JSONstringify(Body(TRUE, FALSE, S_error, 0, prefix \o errorMessage, FALSE, <<>>))

\* lines 512-518
indexRepositoryStart(l) == send(l, IndexRepositoryRequest(l.repoUrl, S_main))

\* lines 519-558
indexRepositoryOnResponse(l, r) ==
  IF IsOk(r) THEN finish(l, Envelope(JSONstringify(r.body)))
  ELSE IF r.status = 401 THEN finish(l, ErrorEnvelope(S_IndexAuth401))
  ELSE finish(l, ErrorEnvelope(FailureText(S_RepoIndexingFailed, ErrorMessage(r))))

\* lines 566-568 and 599-601
getStart(l, url) == send(l, GetRequest(url))

\* lines 569-591 and 602-624
getOnResponse(l, r, prefix) ==
  IF IsOk(r) THEN finish(l, Envelope(JSONstringify(r.body)))
  ELSE finish(l, ErrorEnvelope(FailureText(prefix, ErrorMessage(r))))

IndexRepository(p) ==
  /\ Quiet /\ pc[p] = "idle"
  /\ Apply(p, Step(indexRepositoryStart([Invoke(p, "indexRepository", <<>>, <<>>)
                                           EXCEPT !.repoUrl = RepoFull]), OAUTH_TOKEN))

Repositories(p) ==
  /\ Quiet /\ pc[p] = "idle"
  /\ Apply(p, Step(getStart(Invoke(p, "repositories", <<>>, <<>>), "/repositories"),
                   OAUTH_TOKEN))

Profile(p) ==
  /\ Quiet /\ pc[p] = "idle"
  /\ Apply(p, Step(getStart(Invoke(p, "profile", <<>>, <<>>), "/profile"), OAUTH_TOKEN))

IndexRepositoryContinue(p) ==
  /\ resp[p] # NoResp /\ tool[p] = "indexRepository"
  /\ Apply(p, Step(indexRepositoryOnResponse(Arrived(p), resp[p]), OAUTH_TOKEN))

RepositoriesContinue(p) ==
  /\ resp[p] # NoResp /\ tool[p] = "repositories"
  /\ Apply(p, Step(getOnResponse(Arrived(p), resp[p], S_FetchReposFailed), OAUTH_TOKEN))

ProfileContinue(p) ==
  /\ resp[p] # NoResp /\ tool[p] = "profile"
  /\ Apply(p, Step(getOnResponse(Arrived(p), resp[p], S_FetchProfileFailed), OAUTH_TOKEN))

\* ---- app.post('/mcp'), lines 657-734

BridgeTools ==
  {"vectorSearch", "vectorSearchWithSummary", "indexRepository", "repositories",
   "profile", "other"}

\* the Authorization header of the request, <<>> when it has none
AuthHeaders ==
  {<<>>, S_Bearer \o Secret, S_Bearer \o S_undefined, Secret, S_Bearer}

\* faulty variant: an unset secret is interpolated as the empty text
ExpectedHeader_EmptyWhenUnset(secret) == S_Bearer \o secret

\* `Bearer ${serverConfig.MCP_SECRET_TOKEN}`, line 661
ExpectedHeader(secret) == S_Bearer \o (IF secret = <<>> THEN S_undefined ELSE secret)

\* faulty variant: any Authorization header is accepted
Unauthorized_MissingOnly(authHeader, secret) == authHeader = <<>>

\* line 661
Unauthorized(authHeader, secret) ==
  authHeader = <<>> \/ ExpectedHeader(secret) # authHeader

\* lines 666-699
endpoint(t) ==
  CASE t = "vectorSearch" -> "/search"
    [] t = "vectorSearchWithSummary" -> "/search/summary"
    [] t = "indexRepository" -> "/index"
    [] t = "repositories" -> "/repositories"
    [] t = "profile" -> "/profile"
    [] OTHER -> "/search"

\* lines 666-699: the fields of goServerRequest, {} for null
goServerRequest(t) ==
  CASE t = "indexRepository" -> {"repo_url", "branch"}
    [] t \in {"repositories", "profile"} -> {}
    [] OTHER -> {"query", "repository", "branch"}

\* lines 667, 674, 681: these tools read req.body.params
ReadsParams(t) == t \in {"vectorSearch", "vectorSearchWithSummary", "indexRepository"}

\* the message of the TypeError of reading a property of undefined params
ParamsError(t) == IF t = "indexRepository" THEN S_ReadingRepoUrl ELSE S_ReadingQuery

\* faulty variant: the request is sent with the headers of axiosConfig
FetchRequest_WithConfig(t) ==
  WithAxiosConfig(Request("fetch", endpoint(t), "fetch", <<>>, goServerRequest(t),
                          <<>>, <<>>,
                          IF goServerRequest(t) = {} THEN <<>> ELSE S_main))

\* lines 701-713; the request carries no Authorization header
FetchRequest(t) ==
  Request("fetch", endpoint(t), "fetch", <<>>, goServerRequest(t), <<>>, <<>>,
          IF goServerRequest(t) = {} THEN <<>> ELSE S_main)

UrlText(url) ==
  CASE url = "/search" -> S_search
    [] url = "/search/summary" -> S_searchSummary
    [] url = "/index" -> S_index
    [] url = "/repositories" -> S_repositories
    [] url = "/vector-search" -> S_vectorSearchPath
    [] url = "/index-repository" -> S_indexRepositoryPath
    [] OTHER -> S_profile

\* error.message of a fetch that got no response
FetchErrorMessage(url) ==
  S_FetchFailedPrefix \o GO_SERVER_URL \o UrlText(url) \o S_FetchFailedMid \o S_ConnRefused

\* response.text(): the body as the backend sent it
ResponseText(body) == IF body.obj THEN JSONstringify(body) ELSE body.message

\* the route has sent HTTP response r
respond(l, r) == [l EXCEPT !.pc = "done", !.res = r, !.req = NoReq, !.resp = NoResp]

\* faulty variant: the status of the response is not set
InternalError_Status200(errorMessage) ==
  HttpResponse(200, [error |-> S_InternalServerError, message |-> errorMessage,
                     success |-> FALSE])

\* lines 726-733
InternalError(errorMessage) ==
  HttpResponse(500, [error |-> S_InternalServerError, message |-> errorMessage,
                     success |-> FALSE])

\* lines 658-713
mcpStart(l, authHeader, secret, t, hasParams) ==
  IF Unauthorized(authHeader, secret)
    THEN respond(l, HttpResponse(401, [error |-> S_Unauthorized]))
  ELSE IF ReadsParams(t) /\ ~hasParams THEN respond(l, InternalError(ParamsError(t)))
  ELSE send(l, FetchRequest(t))

\* lines 714-733
mcpOnResponse(l, r) ==
  IF r.status = 0 THEN respond(l, InternalError(FetchErrorMessage(l.req.url)))
  ELSE IF ~IsOk(r)
    THEN respond(l, HttpResponse(r.status,
                                 [error |-> S_RequestFailedError,
                                  message |-> ResponseText(r.body), success |-> FALSE]))
  ELSE IF ~r.body.obj THEN respond(l, InternalError(S_JsonParseError))
  ELSE respond(l, HttpResponse(200, r.body))

Mcp(p) ==
  /\ Quiet /\ pc[p] = "idle"
  /\ \E authHeader \in AuthHeaders, t \in BridgeTools, hasParams \in BOOLEAN :
       Apply(p, Step(mcpStart([Invoke(p, "POST /mcp", <<>>, <<>>)
                                 EXCEPT !.httpReq = HttpRequest(authHeader, t, hasParams)],
                              authHeader, MCP_SECRET_TOKEN, t, hasParams),
                     OAUTH_TOKEN))

McpContinue(p) ==
  /\ resp[p] # NoResp /\ tool[p] = "POST /mcp"
  /\ Apply(p, Step(mcpOnResponse(Arrived(p), resp[p]), OAUTH_TOKEN))

\* ---- the route POST /mcp of the Replit variant, part_000 lines 353-420

\* part_000 line 392
replitEndpoint(t) ==
  IF t = "indexRepository" THEN "/index-repository" ELSE "/vector-search"

\* part_000 lines 365-387: the fields of goServerRequest
replitGoServerRequest(t) ==
  IF t = "indexRepository" THEN {"repoUrl", "branch"}
                           ELSE {"query", "repository", "branch"}

\* part_000 lines 365, 372: these tools read req.body.params
ReplitReadsParams(t) == t \in {"vectorSearch", "indexRepository"}

\* part_000 lines 393-399; the request carries no Authorization header
ReplitFetchRequest(t) ==
  Request("fetch", replitEndpoint(t), "fetch", <<>>, replitGoServerRequest(t),
          <<>>, <<>>, S_main)

\* part_000 lines 354-399
replitMcpStart(l, authHeader, secret, t, hasParams) ==
  IF Unauthorized(authHeader, secret)
    THEN respond(l, HttpResponse(401, [error |-> S_Unauthorized]))
  ELSE IF ReplitReadsParams(t) /\ ~hasParams
    THEN respond(l, InternalError(ParamsError(t)))
  ELSE send(l, ReplitFetchRequest(t))

ReplitMcp(p) ==
  /\ Quiet /\ pc[p] = "idle"
  /\ \E authHeader \in AuthHeaders, t \in BridgeTools, hasParams \in BOOLEAN :
       Apply(p, Step(replitMcpStart([Invoke(p, "replit POST /mcp", <<>>, <<>>)
                                       EXCEPT !.httpReq = HttpRequest(authHeader, t, hasParams)],
                                    authHeader, MCP_SECRET_TOKEN, t, hasParams),
                     OAUTH_TOKEN))

\* part_000 lines 401-420 are lines 714-733 of integration.js
ReplitMcpContinue(p) ==
  /\ resp[p] # NoResp /\ tool[p] = "replit POST /mcp"
  /\ Apply(p, Step(mcpOnResponse(Arrived(p), resp[p]), OAUTH_TOKEN))

\* the backend answers a GET request of a tool or a request of the route
DeliverPlain(p) ==
  /\ Quiet /\ pc[p] \in {"get", "fetch"}
  /\ \E r \in PlainResponses : resp' = [resp EXCEPT ![p] = r]
  /\ UNCHANGED <<OAUTH_TOKEN, tool, pc, message, repository, attempt, indexed,
                 lastError, req, ret, trace, all404, argRepoUrl, res, httpReq, retries,
                 MCP_SECRET_TOKEN, calls>>

NextTools ==
  \/ Next
  \/ \E p \in ToolProcs :
       \/ IndexRepository(p)
       \/ Repositories(p)
       \/ Profile(p)
       \/ Mcp(p)
       \/ DeliverPlain(p)
       \/ IndexRepositoryContinue(p)
       \/ RepositoriesContinue(p)
       \/ ProfileContinue(p)
       \/ McpContinue(p)
       \/ ReplitMcp(p)
       \/ ReplitMcpContinue(p)

SpecTools == Init /\ [][NextTools]_vars

(***************************************************************************)
(* The vectorSearch tool of the Replit variant of the server               *)
(* (src/unnamed/part_000): two plain searches, then an index call when a   *)
(* repoUrl was given.  It has no credential store; its requests carry the  *)
(* static X-MCP-Token header.                                              *)
(***************************************************************************)
ReplitProcs == {"A"}

ReplitSearchResponses ==
  {Response(200, BodyResults), Response(200, BodyEmpty), Response(200, ArrayBody(<<>>)),
   Response(200, ArrayBody(<<R1>>)), Response(200, BodyAccepted),
   Response(200, BodyErrorFlag), Response(404, BodyMsgNotFound), Response(500, NoBody),
   NoResponse}

ReplitIndexResponses == {Response(200, BodyAccepted), Response(500, NoBody), NoResponse}

RepoUrls == {<<>>, RepoFull}

\* part_000 lines 223-227 and 258-262
ReplitSearchRequest(repo) ==
  WithAxiosConfig(Request("search", "/vector-search", "axios", <<>>,
                          {"query", "repository", "limit"}, repo, <<>>, <<>>))

\* part_000 lines 311-314
ReplitIndexRequest(url, branch) ==
  WithAxiosConfig(Request("index", "/index-repository", "axios", <<>>,
                          {"repoUrl", "branch"}, <<>>, url, branch))

\* faulty variant: a text containing 'error' counts as a result
hasResults_ErrorTextCounts(result) ==
  /\ ~result.isError
  /\ result.text # <<>>
  /\ result.text # J_open \o J_close
  /\ result.text # J_lbracket \o J_rbracket

\* part_000 lines 211-219; content is always one item of type 'text'
hasResults(result) ==
  /\ ~result.isError
  /\ result.text # <<>>
  /\ ~includes(result.text, S_error)
  /\ result.text # J_open \o J_close
  /\ result.text # J_lbracket \o J_rbracket

\* part_000 lines 221-251 and 256-286: the result of one attempt
replitSearchResult(r) ==
  IF IsOk(r)
    THEN Envelope(JSONstringify(r.body))
    ELSE ErrorEnvelope(JSONstringify(
           Body(TRUE, FALSE, S_error, 0, S_SearchFailed \o ErrorMessage(r), FALSE, <<>>)))

\* part_000 lines 220-227: the 1st attempt
replitStart(l) == send([l EXCEPT !.attempt = 0], ReplitSearchRequest(l.repository))

\* part_000 lines 253-295, after the response of an attempt.  server.tools is
\* no part of this repository: toolsDefined says whether the object has that
\* property; without it line 292 throws a TypeError
replitAfterSearch(l, r, toolsDefined) ==
  LET result == replitSearchResult(r)
  IN  IF hasResults(result) THEN finish(l, result)
      ELSE IF l.attempt = 0
        THEN send([l EXCEPT !.attempt = 1], ReplitSearchRequest(l.repository))
      ELSE IF l.repoUrl # <<>>
        THEN IF toolsDefined
               THEN send([l EXCEPT !.ret = result], ReplitIndexRequest(l.repoUrl, S_main))
               ELSE finish(l, Thrown(S_TypeError))
      ELSE finish(l, result)

\* part_000 lines 291-295: the result of indexRepository is dropped (the tool
\* catches every error, lines 325-345) and the 2nd result is returned
replitAfterIndex(l) == finish(l, l.ret)

replitOnResponse(l, r, toolsDefined) ==
  IF l.pc = "search" THEN replitAfterSearch(l, r, toolsDefined) ELSE replitAfterIndex(l)

ReplitVectorSearch(p) ==
  /\ Quiet /\ pc[p] = "idle"
  /\ \E repo \in Repos, url \in RepoUrls :
       Apply(p, Step(replitStart([Invoke(p, "replit.vectorSearch", M_Query, repo)
                                    EXCEPT !.repoUrl = url]), OAUTH_TOKEN))

ReplitDeliver(p) ==
  /\ Quiet /\ pc[p] \in {"search", "index"}
  /\ \E r \in (IF req[p].op = "index" THEN ReplitIndexResponses
                                      ELSE ReplitSearchResponses) :
       resp' = [resp EXCEPT ![p] = r]
  /\ UNCHANGED <<OAUTH_TOKEN, tool, pc, message, repository, attempt, indexed,
                 lastError, req, ret, trace, all404, argRepoUrl, res, httpReq, retries,
                 MCP_SECRET_TOKEN, calls>>

ReplitContinue(p) ==
  /\ resp[p] # NoResp /\ tool[p] = "replit.vectorSearch"
  /\ \E toolsDefined \in BOOLEAN :
       Apply(p, Step(replitOnResponse(Arrived(p), resp[p], toolsDefined), OAUTH_TOKEN))

NextReplit ==
  \E p \in ReplitProcs :
    \/ ReplitVectorSearch(p)
    \/ ReplitDeliver(p)
    \/ ReplitContinue(p)
    \/ Return(p)

SpecReplit == Init /\ [][NextReplit]_vars

(***************************************************************************)
(* Properties.                                                             *)
(***************************************************************************)
Count(seq, x) == Cardinality({i \in DOMAIN seq : seq[i] = x})

Searches(p) == Count(trace[p], "search")
IndexCalls(p) == Count(trace[p], "index")
Waits(p) == Count(trace[p], "wait")

Polling(p) == tool[p] = "vectorSearchWithSummary"

IsCommand(msg) ==
  startsWith(trim(msg), S_SetTokenCmd) \/ startsWith(trim(msg), S_IndexRepoCmd)

\* vectorSearch, and chat with a message that is no command
SingleShot(p) ==
  tool[p] = "vectorSearch" \/ (tool[p] = "chat" /\ ~IsCommand(message[p]))

\* this step is the continuation of p handling the response that arrived
Handles(p) == resp[p] # NoResp /\ resp'[p] = NoResp

\* an index call of the run was answered without an error marker: the
\* polling run went on to wait
IndexAccepted(p) ==
  \E i \in 1..(Len(trace[p]) - 1) : trace[p][i] = "index" /\ trace[p][i + 1] = "wait"

Message404 == S_RequestFailed \o StatusText(404)

\* C1: a polling run sends at most 6 searches and at most 1 index request,
\* whatever the backend answers.
C1_PollingBudget ==
  \A p \in Procs : Polling(p) => Searches(p) <= 6 /\ IndexCalls(p) <= 1

\* a polling run that used the whole budget on 404 answers
C1_Witness ==
  \E p \in Procs :
    Polling(p) /\ pc[p] = "done" /\ all404[p] /\ Searches(p) = 6 /\ IndexCalls(p) = 1

\* C2: a polling run whose searches all get 404 and whose index call is
\* accepted sends exactly 6 searches and 1 index request, the index request
\* right after the first search, and ends with the "after multiple attempts"
\* text carrying the message of the last error.
C2_AllNotFound ==
  \A p \in Procs :
    (Polling(p) /\ pc[p] = "done" /\ all404[p] /\ IndexAccepted(p))
      => /\ trace[p] = <<"search", "index", "wait", "search", "wait", "search", "wait",
                         "search", "wait", "search", "wait", "search">>
         /\ ret[p] = Envelope(MultipleAttemptsText(repository[p], Message404))

C2_Witness ==
  \E p \in Procs :
    /\ Polling(p) /\ pc[p] = "done" /\ all404[p] /\ IndexAccepted(p)
    /\ Searches(p) = 6 /\ IndexCalls(p) = 1 /\ trace[p][2] = "index"
    /\ ret[p].text = MultipleAttemptsText(repository[p], Message404)

\* C3: a polling run whose first search got 404, whose index call was
\* accepted and whose second search succeeds returns the payload of the
\* second search, having sent one index request and waited once, between
\* the index request and the second search.
C3_IndexThenSuccess ==
  [][\A p \in Procs :
       (/\ Polling(p) /\ Handles(p) /\ pc[p] = "search" /\ attempt[p] = 1
        /\ lastError[p] = Message404 /\ IsOk(resp[p]))
         => /\ pc'[p] = "done"
            /\ ret'[p] = Envelope(JSONstringify(resp[p].body))
            /\ trace'[p] = <<"search", "index", "wait", "search">>]_vars

C3_Witness ==
  \E p \in Procs :
    /\ Polling(p) /\ pc[p] = "done" /\ ~all404[p]
    /\ trace[p] = <<"search", "index", "wait", "search">>
    /\ ret[p] = Envelope(JSONstringify(BodyResults))

\* an index response that carries no error marker
Accepted(r) == IsOk(r) /\ ~r.body.error /\ r.body.status # S_error

\* C4: a single-shot run (vectorSearch, chat without a command) sends at
\* most one search and at most one index request and never waits; when its
\* index request is accepted it returns the "indexing has been started"
\* text and sends nothing more.
C4_SingleShot ==
  /\ [](\A p \in Procs :
          SingleShot(p)
            => Searches(p) <= 1 /\ IndexCalls(p) <= 1 /\ Waits(p) = 0 /\ pc[p] # "delay")
  /\ [][\A p \in Procs :
          (SingleShot(p) /\ Handles(p) /\ pc[p] = "index" /\ Accepted(resp[p]))
            => /\ pc'[p] = "done"
               /\ ret'[p] = Envelope(IndexStartedText(repository[p]))
               /\ trace'[p] = <<"search", "index">>]_vars

C4_Witness ==
  /\ tool["A"] = "vectorSearch" /\ pc["A"] = "done"
  /\ trace["A"] = <<"search", "index">>
  /\ ret["A"] = Envelope(IndexStartedText(repository["A"]))
  /\ tool["B"] = "chat" /\ pc["B"] = "done" /\ ~IsCommand(message["B"])
  /\ trace["B"] = <<"search", "index">>
  /\ ret["B"] = Envelope(IndexStartedText(repository["B"]))

\* backend base URL + /auth/login
LoginUrl == GO_SERVER_URL \o S_AuthLoginPath

\* C5: a run whose search is answered with 401 or 403, whatever the body,
\* ends at once with the reauthentication prompt (a text with the login
\* URL): it sends no index request, does not wait and does not retry.
C5_AuthFailureFastExit ==
  [][\A p \in Procs :
       (Handles(p) /\ pc[p] = "search" /\ resp[p].status \in {401, 403})
         => /\ pc'[p] = "done"
            /\ includes(ret'[p].text, LoginUrl)
            /\ trace'[p] = trace[p]]_vars

\* C6: when a request that carried the credential is answered with 401 or
\* 403, the credential is absent once the answer has been handled.
C6_ClearedAfterAuthFailure ==
  [][\A p \in Procs :
       (Handles(p) /\ req[p].auth # <<>> /\ resp[p].status \in {401, 403})
         => OAUTH_TOKEN' = NoToken]_vars

\* C7: no request is sent while the credential is absent: every search,
\* summary search and index request in flight carries a credential.
C7_NoRequestWithoutCredential ==
  \A p \in Procs : req[p].op # "none" => req[p].auth # <<>>

\* C8: chat without a command, vectorSearch and vectorSearchWithSummary,
\* invoked without a credential, return an envelope whose text contains the
\* login URL, send no request and leave the credential absent.
C8_NoCredentialPrompt ==
  [][\A p \in Procs :
       (/\ pc[p] = "idle" /\ pc'[p] # "idle" /\ OAUTH_TOKEN = NoToken
        /\ tool'[p] \in {"chat", "vectorSearch", "vectorSearchWithSummary"}
        /\ ~IsCommand(message'[p]))
         => /\ pc'[p] = "done" /\ ~ret'[p].thrown
            /\ includes(ret'[p].text, LoginUrl)
            /\ trace'[p] = <<>> /\ req'[p] = NoReq
            /\ OAUTH_TOKEN' = NoToken]_vars

C8_Witness ==
  /\ OAUTH_TOKEN = NoToken
  /\ Polling("A") /\ pc["A"] = "done" /\ trace["A"] = <<>>
  /\ includes(ret["A"].text, LoginUrl)
  /\ tool["B"] = "chat" /\ ~IsCommand(message["B"]) /\ pc["B"] = "done"
  /\ trace["B"] = <<>> /\ includes(ret["B"].text, LoginUrl)

\* the classification of section 4.5
NotIndexedBySpec(r) ==
  \/ includes(toLowerCase(r.body.message), S_notFound)
  \/ includes(toLowerCase(r.body.message), S_notIndexed)
  \/ (~IsOk(r) /\ includes(toLowerCase(ErrorMessage(r)), S_notFound))
  \/ (~IsOk(r) /\ includes(toLowerCase(ErrorMessage(r)), S_notIndexed))
  \/ r.status \in {404, 500}

\* C9: in both configurations a failed first search of a run (an error
\* response that is no authentication failure, or no response at all) leads
\* to the index request exactly when its message contains "not found" or
\* "not indexed" in any case, or its status is 404 or 500.
C9_Classification ==
  [][\A p \in Procs :
       (/\ Handles(p) /\ pc[p] = "search" /\ ~indexed[p]
        /\ (Polling(p) \/ SingleShot(p))
        /\ ~IsOk(resp[p]) /\ resp[p].status \notin {401, 403}
        /\ OAUTH_TOKEN # NoToken)
         => (pc'[p] = "index" <=> NotIndexedBySpec(resp[p]))]_vars

\* C10: when the first search of a run is answered with a payload
\* {success: true, data: [...]}, the run ends with that payload as its
\* result, having sent one search, no index request and not waited.
C10_FirstSearchSucceeds ==
  [][\A p \in Procs :
       (/\ Handles(p) /\ pc[p] = "search" /\ trace[p] = <<"search">>
        /\ (Polling(p) \/ SingleShot(p))
        /\ resp[p].status = 200 /\ resp[p].body \in {BodyResults, BodyEmpty})
         => /\ pc'[p] = "done"
            /\ ret'[p] = Envelope(JSONstringify(resp[p].body))
            /\ trace'[p] = <<"search">>]_vars

C10_Witness ==
  /\ Polling("A") /\ pc["A"] = "done" /\ trace["A"] = <<"search">>
  /\ ret["A"] = Envelope(JSONstringify(BodyResults))
  /\ SingleShot("B") /\ pc["B"] = "done" /\ trace["B"] = <<"search">>
  /\ ret["B"] = Envelope(JSONstringify(BodyResults))

\* a successful payload that carries zero results
ZeroResults(body) == body \in {BodyEmpty, ArrayBody(<<>>)}

\* C11: in the vectorSearch tool of both variants of the server, a first
\* search answered successfully with zero results ends the run with that
\* payload as its result: no second search, no index request, no error.
C11_ZeroResultsEndRun ==
  [][\A p \in Procs :
       (Handles(p) /\ tool[p] \in {"vectorSearch", "replit.vectorSearch"}
        /\ pc[p] = "search" /\ trace[p] = <<"search">>
        /\ IsOk(resp[p]) /\ ZeroResults(resp[p].body))
       => /\ pc'[p] = "done"
          /\ ret'[p] = Envelope(JSONstringify(resp[p].body))
          /\ trace'[p] = trace[p]]_vars

\* the index call was answered with a failure report: an error payload, a
\* payload with status "error", or an authentication failure
IndexReportsFailure(r) ==
  \/ IsOk(r) /\ (r.body.error \/ r.body.status = S_error)
  \/ r.status \in {401, 403}

\* the detail of that report, as the run's message quotes it
IndexFailureDetail(r) ==
  IF r.status \in {401, 403} THEN TokenExpiredMessage
  ELSE IF r.body.message = <<>> THEN S_undefined ELSE r.body.message

\* the failure message of a run on repository repo
IndexFailureMessage(repo, detail) == S_Repository \o repo \o S_IndexFailedMid \o detail

\* the search response being handled makes the run trigger indexing
TriggersIndex(p) ==
  IF Polling(p) THEN ~IsOk(resp[p]) /\ NeedsIndexingSummary(resp[p]) /\ ~indexed[p]
  ELSE resp[p].status \in {401, 403} \/ (IsOk(resp[p]) /\ NeedsIndexing(resp[p].body))

\* C12: when the index trigger of a run reports failure (an error payload,
\* status "error", an authentication failure, or no credential at the time
\* of the trigger), the run ends at once with the message that names the
\* repository and the failure detail: nothing is added to the run's trace,
\* so no wait, search or index request follows.
C12_IndexFailureEndsRun ==
  [][\A p \in Procs :
       (Handles(p) /\ (Polling(p) \/ SingleShot(p)))
       => /\ (pc[p] = "index" /\ IndexReportsFailure(resp[p]))
             => /\ pc'[p] = "done"
                /\ ret'[p] = Envelope(IndexFailureMessage(repository[p],
                                                          IndexFailureDetail(resp[p])))
                /\ trace'[p] = trace[p]
          /\ (pc[p] = "search" /\ TriggersIndex(p) /\ OAUTH_TOKEN' = NoToken)
             => /\ pc'[p] = "done"
                /\ ret'[p] = Envelope(IndexFailureMessage(repository[p], NoTokenMessage))
                /\ trace'[p] = trace[p]]_vars

\* a polling run and a single-shot run have both ended on a failed index
\* trigger, one on a payload with status "error" or an error flag, the other
\* on a missing credential
C12_Witness ==
  /\ Polling("A") /\ pc["A"] = "done" /\ trace["A"] = <<"search", "index">>
  /\ ret["A"] = Envelope(IndexFailureMessage(repository["A"], MsgOther))
  /\ SingleShot("B") /\ pc["B"] = "done" /\ trace["B"] = <<"search">>
  /\ ret["B"] = Envelope(IndexFailureMessage(repository["B"], NoTokenMessage))

\* C13: a polling run ends with the "not found or not indexed after multiple
\* attempts" message only when it has made all six search attempts.
C13_FinalMessageOnlyAtBudget ==
  \A p \in Procs :
    (Polling(p) /\ pc[p] = "done" /\ includes(ret[p].text, S_MultipleAttemptsMid))
    => Searches(p) = 6

\* C14: a search that fails without any HTTP response ends the run, polling
\* or single-shot, in the same step: no index request, no wait and no retry
\* is added to the trace, and the result carries the failure's message.
C14_TransportFailureEndsRun ==
  [][\A p \in Procs :
       (Handles(p) /\ (Polling(p) \/ SingleShot(p)) /\ pc[p] = "search"
        /\ resp[p].status = 0)
       => /\ pc'[p] = "done"
          /\ trace'[p] = trace[p]
          /\ includes(ret'[p].text, ErrorMessage(resp[p]))]_vars

\* a polling run and a chat run have both ended after one search on the
\* message of a refused connection
C14_Witness ==
  /\ Polling("A") /\ pc["A"] = "done" /\ trace["A"] = <<"search">>
  /\ ret["A"] = Envelope(MultipleAttemptsText(repository["A"], S_ConnRefused))
  /\ SingleShot("B") /\ pc["B"] = "done" /\ trace["B"] = <<"search">>
  /\ ret["B"].isError /\ includes(ret["B"].text, S_ConnRefused)

\* C15: whatever the backend answers, no handler ends by throwing: every
\* invocation ends with a response envelope.
C15_NoUncaughtException == \A p \in Procs : ~ret[p].thrown

\* The inputs of the runs checked for termination: one repository and an
\* answer of each kind (results, authentication failure, not found, another
\* error, no response; for the index call accepted, refused, authentication
\* failure, no response).
LiveResponses ==
  {Response(200, BodyResults), Response(401, BodyMsgOther),
   Response(404, BodyMsgNotFound), Response(400, BodyMsgOther), NoResponse,
   Response(200, BodyAccepted), Response(200, BodyErrorFlag), Response(401, NoBody)}

LiveInputs ==
  \A p \in Procs :
    /\ resp[p] \in LiveResponses \cup {NoResp}
    /\ repository[p] \in {<<>>, RepoShort}

NextLive ==
  \E p \in Procs :
    \/ Chat(p) /\ LiveInputs'
    \/ VectorSearch(p) /\ LiveInputs'
    \/ VectorSearchWithSummary(p) /\ LiveInputs'
    \/ Deliver(p) /\ LiveInputs'
    \/ ChatContinue(p)
    \/ VectorSearchContinue(p)
    \/ SummaryContinue(p)
    \/ DelayElapsed(p)
    \/ Return(p)

\* the continuation of invocation p runs
Continues(p) == resp[p] # NoResp /\ resp'[p] = NoResp

\* Every request in flight is eventually answered or fails and every timer
\* eventually fires.  This fairness is strong: the event loop runs the
\* callbacks one at a time, so one that is ready is delayed by the turn of
\* another but never dropped.  A response that has arrived is handled: the
\* last conjunct is WF_vars of the continuation of p, whose ENABLED is
\* resp[p] # NoResp, written out.
Fairness ==
  \A p \in Procs :
    /\ SF_vars(Deliver(p))
    /\ SF_vars(DelayElapsed(p))
    /\ ([]<>(resp[p] = NoResp) \/ []<><<Continues(p)>>_vars)

LiveSpec == Init /\ [][NextLive]_vars /\ Fairness

\* the invocation in slot p is running: started and not yet returned
Running(p) == pc[p] \notin {"idle", "done"}

\* C16: every invocation of vectorSearch, chat and vectorSearchWithSummary
\* that has started eventually reaches Done, whatever the backend answers and
\* whatever the other invocation does to the credential meanwhile.
C16_EveryRunTerminates == \A p \in Procs : Running(p) ~> pc[p] = "done"

\* a polling run has used its whole budget and ended
C16_Witness ==
  \E p \in Procs : Polling(p) /\ pc[p] = "done" /\ Searches(p) = 6 /\ Waits(p) = 5

\* C17: an invocation that sent its search with the credential and finds the
\* credential cleared (by the authentication failure of the other
\* invocation) when it comes to its index trigger, its next protected call,
\* gets the no-credential result: it sends no index request and ends with the
\* index failure message quoting "No token found ...".
C17_ClearSeenByOther ==
  [][\A p \in Procs :
       (Handles(p) /\ (Polling(p) \/ SingleShot(p)) /\ pc[p] = "search"
        /\ req[p].auth # <<>> /\ OAUTH_TOKEN = NoToken /\ TriggersIndex(p))
       => /\ pc'[p] = "done"
          /\ trace'[p] = trace[p]
          /\ req'[p] = NoReq
          /\ ret'[p] = Envelope(IndexFailureMessage(repository[p], NoTokenMessage))]_vars

\* the chat invocation ended on an authentication failure, which cleared the
\* credential, and the polling run that had searched with it ended on the
\* refused index trigger
C17_Witness ==
  /\ tool["B"] = "chat" /\ pc["B"] = "done"
  /\ includes(ret["B"].text, TokenExpiredMessage)
  /\ Polling("A") /\ pc["A"] = "done" /\ trace["A"] = <<"search">>
  /\ ret["A"] = Envelope(IndexFailureMessage(repository["A"], NoTokenMessage))
  /\ OAUTH_TOKEN = NoToken

\* no response is waiting for its continuation
NoneHandling == \A r \in Procs : resp[r] = NoResp

\* C18: while a polling invocation waits, the other invocation is served: it
\* can start when it is idle, its request in flight can be answered, its
\* response is handled and it can return; and the waiting invocation can
\* resume, its timer being able to fire whenever no continuation is running.
C18_ServedDuringWait ==
  \A p, q \in Procs :
    (p # q /\ Polling(p) /\ pc[p] = "delay")
    => /\ (NoneHandling /\ pc[q] = "idle") => ENABLED Chat(q)
       /\ (NoneHandling /\ pc[q] \in {"search", "index"}) => ENABLED Deliver(q)
       /\ resp[q] # NoResp => ENABLED ChatContinue(q)
       /\ (NoneHandling /\ pc[q] = "done") => ENABLED Return(q)
       /\ NoneHandling => ENABLED DelayElapsed(p)

\* a polling run has resumed after its wait and sent its second search
\* without a credential: the credential it had when it triggered indexing was
\* cleared during the wait by an answer to the chat invocation, which ended
C18_Witness ==
  /\ Polling("A") /\ pc["A"] = "search" /\ req["A"].auth = <<>>
  /\ trace["A"] = <<"search", "index", "wait", "search">>
  /\ tool["B"] = "chat" /\ pc["B"] = "done" /\ trace["B"] # <<>>
  /\ includes(ret["B"].text, TokenExpiredMessage)

\* C19: the credential changes only in two ways: a chat invocation that
\* starts with a /set-token command carrying a token stores that token, and
\* the continuation of a call made through protectedAxios that was answered
\* 401 or 403 clears it.  Every other step, those of the HTTP bridge and of
\* the tools that call the backend directly included, leaves it unchanged.
C19_CredentialLifecycle ==
  [][OAUTH_TOKEN' # OAUTH_TOKEN
     => \E p \in Procs :
          \/ /\ pc[p] = "idle" /\ tool'[p] = "chat" /\ pc'[p] = "done"
             /\ startsWith(trim(message'[p]), S_SetTokenCmd)
             /\ OAUTH_TOKEN' = trim(slice(trim(message'[p]), 11))
             /\ OAUTH_TOKEN' # NoToken
          \/ /\ Handles(p) /\ req[p].via = "protectedAxios"
             /\ resp[p].status \in {401, 403}
             /\ OAUTH_TOKEN # NoToken /\ OAUTH_TOKEN' = NoToken]_vars

\* the index call of a chat invocation, sent with the token an earlier
\* /set-token had stored, was answered 401 or 403 and the store is empty
C19_Witness ==
  /\ OAUTH_TOKEN = NoToken
  /\ tool["B"] = "chat" /\ pc["B"] = "done" /\ trace["B"] = <<"search", "index">>
  /\ ~IsCommand(message["B"])
  /\ includes(ret["B"].text, TokenExpiredMessage)

(***************************************************************************)
(* The credential store on its own: setToken and clearToken called in any  *)
(* order, logged in calls.                                                  *)
(***************************************************************************)
MaxCalls == 4

SetTokenCall(t) ==
  /\ Len(calls) < MaxCalls
  /\ OAUTH_TOKEN' = setToken(OAUTH_TOKEN, t)
  /\ calls' = Append(calls, [op |-> "setToken", token |-> t])
  /\ UNCHANGED <<tool, pc, message, repository, attempt, indexed, lastError,
                 req, resp, ret, trace, all404, argRepoUrl, res, httpReq, retries,
                 MCP_SECRET_TOKEN>>

ClearTokenCall ==
  /\ Len(calls) < MaxCalls
  /\ OAUTH_TOKEN' = clearToken
  /\ calls' = Append(calls, [op |-> "clearToken", token |-> NoToken])
  /\ UNCHANGED <<tool, pc, message, repository, attempt, indexed, lastError,
                 req, resp, ret, trace, all404, argRepoUrl, res, httpReq, retries,
                 MCP_SECRET_TOKEN>>

NextStore == (\E t \in Tokens : SetTokenCall(t)) \/ ClearTokenCall

SpecStore == Init /\ [][NextStore]_vars

\* C20: after any sequence of setToken and clearToken calls, getAuthHeader()
\* is the empty mapping when there was no call or the last one was
\* clearToken, and otherwise the mapping with the single entry Authorization
\* whose value is "Bearer " followed by the token of the last setToken.
C20_HeaderOfLastCall ==
  LET header == getAuthHeader(OAUTH_TOKEN)
  IN  IF calls = <<>> \/ calls[Len(calls)].op = "clearToken"
        THEN DOMAIN header = {}
        ELSE /\ DOMAIN header = {"Authorization"}
             /\ header.Authorization = S_Bearer \o calls[Len(calls)].token

\* a token was stored, replaced by another one and cleared, and a token is
\* stored again
C20_Witness ==
  /\ Len(calls) = 4
  /\ calls[1].op = "setToken" /\ calls[2].op = "setToken"
  /\ calls[1].token # calls[2].token
  /\ calls[3].op = "clearToken" /\ calls[4].op = "setToken"
  /\ getAuthHeader(OAUTH_TOKEN) = [Authorization |-> S_Bearer \o calls[4].token]

\* the step is a call of clearToken
ClearStep ==
  Len(calls') = Len(calls) + 1 /\ calls'[Len(calls')].op = "clearToken"

\* C21: clearToken is idempotent: from any state of the store a call of
\* clearToken leaves it absent, with no Authorization header, and a call on
\* an absent credential, a second clearToken included, changes nothing.
C21_ClearIdempotent ==
  [][ClearStep
     => /\ OAUTH_TOKEN' = NoToken
        /\ DOMAIN getAuthHeader(OAUTH_TOKEN') = {}
        /\ OAUTH_TOKEN = NoToken => OAUTH_TOKEN' = OAUTH_TOKEN]_vars

\* a stored token was cleared, and cleared again
C21_Witness ==
  /\ Len(calls) >= 3
  /\ calls[1].op = "setToken"
  /\ calls[2].op = "clearToken" /\ calls[3].op = "clearToken"
  /\ OAUTH_TOKEN = NoToken

(***************************************************************************)
(* The conversion of a repository reference on its own: it is applied to   *)
(* a reference and then to its own result, the calls logged in calls.      *)
(***************************************************************************)
MaxRefLen == 4

UrlChars == {"h", "t", "p", "/"}

\* the references: every text of UrlChars up to MaxRefLen characters, the
\* short and the full form of a repository, and an upper-case scheme
Refs ==
  UNION {[1..k -> UrlChars] : k \in 0..MaxRefLen}
    \cup {RepoShort, RepoFull, <<"H", "T", "T", "P", ":", "/", "/", "x">>}

ToFullUrlCall ==
  /\ Len(calls) < MaxCalls
  /\ \E r \in (IF calls = <<>> THEN Refs ELSE {calls[Len(calls)].result}) :
       calls' = Append(calls, [op |-> "toFullUrl", ref |-> r, result |-> toFullUrl(r)])
  /\ UNCHANGED <<OAUTH_TOKEN, tool, pc, message, repository, attempt, indexed,
                 lastError, req, resp, ret, trace, all404, argRepoUrl, res, httpReq, retries,
                 MCP_SECRET_TOKEN>>

NextUrl == ToFullUrlCall

SpecUrl == Init /\ [][NextUrl]_vars

\* C22: toFullUrl is idempotent: a reference that starts with "http" is
\* returned unchanged, any other reference gets the prefix
\* "https://github.com/" once, and applied to its own result the conversion
\* returns that result.
C22_ToFullUrlIdempotent ==
  \A i \in 1..Len(calls) :
    LET c == calls[i]
    IN  /\ startsWith(c.ref, S_http) => c.result = c.ref
        /\ ~startsWith(c.ref, S_http)
             => /\ Len(c.result) = Len(S_GithubPrefix) + Len(c.ref)
                /\ SubSeq(c.result, 1, Len(S_GithubPrefix)) = S_GithubPrefix
                /\ SubSeq(c.result, Len(S_GithubPrefix) + 1, Len(c.result)) = c.ref
        /\ i > 1 => c.ref = calls[i - 1].result /\ c.result = c.ref

\* the short form was converted to the full form, and the full form was
\* converted to itself
C22_Witness ==
  /\ Len(calls) >= 2
  /\ calls[1].ref = RepoShort /\ calls[1].result = RepoFull
  /\ calls[2].ref = RepoFull /\ calls[2].result = RepoFull

\* C23: every search request in flight carries the repository reference the
\* caller gave, unchanged, and every index request the run triggers by itself
\* (not the /index-repo command) carries as repo_url that reference when it
\* starts with "http" and otherwise "https://github.com/" followed by it, so
\* that repo_url always starts with a scheme.
C23_RequestReferences ==
  \A p \in Procs :
    /\ req[p].op = "search"
         => req[p].repository = repository[p] /\ req[p].repo_url = <<>>
    /\ (req[p].op = "index" /\ ~IsCommand(message[p]))
         => /\ startsWith(req[p].repo_url, S_http)
            /\ req[p].repository = <<>>
            /\ req[p].repo_url = (IF startsWith(repository[p], S_http)
                                    THEN repository[p]
                                    ELSE S_GithubPrefix \o repository[p])

\* the polling run searched with the short form and its index request, in
\* flight, carries the full form
C23_Witness ==
  /\ Polling("A") /\ pc["A"] = "index" /\ trace["A"] = <<"search", "index">>
  /\ repository["A"] = RepoShort
  /\ req["A"].op = "index" /\ req["A"].repo_url = RepoFull

\* C24: every index request of the indexing trigger (the automatic recovery
\* of vectorSearch, chat and vectorSearchWithSummary, and the /index-repo
\* command) has a body with both repo_url and branch.
C24_IndexBodyHasBranch ==
  \A p \in Procs :
    (req[p].op = "index" /\ req[p].via = "protectedAxios")
      => {"repo_url", "branch"} \subseteq req[p].fields /\ req[p].branch # <<>>

\* C26: every search, summary search and index request a tool sends to the
\* backend goes through protectedAxios.
C26_AllThroughProtectedAxios ==
  \A p \in Procs :
    req[p].op \in {"search", "index"} => req[p].via = "protectedAxios"

\* the text after the 11 characters of a command, trimmed
CommandArg(msg) == trim(slice(trim(msg), 11))

SetTokenCommand(p) ==
  /\ tool[p] = "chat" /\ startsWith(trim(message[p]), S_SetTokenCmd)
  /\ CommandArg(message[p]) # <<>>

IndexRepoCommand(p) ==
  /\ tool[p] = "chat" /\ startsWith(trim(message[p]), S_IndexRepoCmd)
  /\ CommandArg(message[p]) # <<>>

\* C25 as stated: a chat invocation with "/set-token <t>" ends with t stored
\* and no backend request, and one with "/index-repo <r>" issues exactly one
\* index request and no search request.
C25_CommandsAsStated ==
  \A p \in Procs :
    /\ (SetTokenCommand(p) /\ pc[p] = "done")
         => trace[p] = <<>> /\ ret[p] = Envelope(S_TokenSet)
    /\ (IndexRepoCommand(p) /\ pc[p] = "done")
         => IndexCalls(p) = 1 /\ Searches(p) = 0

\* C25, amended: a chat invocation with "/set-token <t>" stores t and ends
\* with no backend request, whether a credential is present or not.  One with
\* "/index-repo <r>" makes one index call for toFullUrl(r) through
\* protectedAxios and no search: with a credential present exactly one index
\* request is sent, and with none the call is refused, no request is sent
\* and the run ends with "Indexing failed: No token found ...".
C25_Commands ==
  [][\A p \in Procs :
       /\ (pc[p] = "idle" /\ pc'[p] # "idle" /\ SetTokenCommand(p)')
            => /\ OAUTH_TOKEN' = CommandArg(message'[p])
               /\ pc'[p] = "done" /\ trace'[p] = <<>> /\ req'[p] = NoReq
               /\ ret'[p] = Envelope(S_TokenSet)
       /\ (pc[p] = "idle" /\ pc'[p] # "idle" /\ IndexRepoCommand(p)')
            => IF OAUTH_TOKEN # NoToken
                 THEN /\ pc'[p] = "index" /\ trace'[p] = <<"index">>
                      /\ req'[p].op = "index" /\ req'[p].via = "protectedAxios"
                      /\ req'[p].repo_url =
                           (IF startsWith(CommandArg(message'[p]), S_http)
                              THEN CommandArg(message'[p])
                              ELSE S_GithubPrefix \o CommandArg(message'[p]))
                      /\ OAUTH_TOKEN' = OAUTH_TOKEN
                 ELSE /\ pc'[p] = "done" /\ trace'[p] = <<>> /\ req'[p] = NoReq
                      /\ ret'[p] = Envelope(S_IndexingFailed \o NoTokenMessage)
                      /\ OAUTH_TOKEN' = NoToken
       /\ (IndexRepoCommand(p) /\ pc[p] # "idle" /\ pc'[p] # "idle")
            => trace'[p] = trace[p]]_vars

\* the /index-repo command was answered by the backend and the run ended
\* after its single index request, while the store holds a token
C25_Witness ==
  /\ IndexRepoCommand("B") /\ pc["B"] = "done" /\ trace["B"] = <<"index">>
  /\ ret["B"] = Envelope(CommandStartedText(RepoFull))
  /\ OAUTH_TOKEN # NoToken

\* the invocation is a request to the route POST /mcp of either server
Bridge(p) == tool[p] \in {"POST /mcp", "replit POST /mcp"}

\* C27: a POST /mcp request without Authorization header, or with one that is
\* not "Bearer " followed by the configured secret, is answered 401
\* {error: "Unauthorized"} and no backend request is made for it; a request
\* is forwarded to the backend only with exactly that header.
C27_BridgeAuthorization ==
  [][\A p \in Procs :
       (pc[p] = "idle" /\ pc'[p] # "idle" /\ Bridge(p)')
       => IF \/ httpReq'[p].authorization = <<>>
             \/ httpReq'[p].authorization # S_Bearer \o MCP_SECRET_TOKEN
            THEN /\ pc'[p] = "done" /\ req'[p] = NoReq /\ trace'[p] = <<>>
                 /\ res'[p] = HttpResponse(401, [error |-> S_Unauthorized])
            ELSE /\ res'[p].status # 401
                 /\ pc'[p] = "done" \/ (pc'[p] = "fetch" /\ req'[p].op = "fetch")]_vars

\* a request that carried "Bearer undefined", not the configured secret, was
\* answered 401 without any backend request
C27_Witness ==
  \E p \in Procs :
    /\ Bridge(p) /\ pc[p] = "done" /\ trace[p] = <<>>
    /\ httpReq[p].authorization = S_Bearer \o S_undefined
    /\ res[p] = HttpResponse(401, [error |-> S_Unauthorized])

\* C28: the route answers the backend's response to a forwarded request: a
\* non-OK response with the backend's status and {error, message,
\* success: false}, the message being the body as sent; an OK response with
\* the parsed body; no response at all, or an OK body that does not parse,
\* with status 500 and success: false.  The answer is sent once: the request
\* that ended has exactly the answer of the step that ended it.
C28_BridgeResponses ==
  [][\A p \in Procs :
       /\ (Handles(p) /\ Bridge(p))
            => /\ pc'[p] = "done" /\ res[p] = NoRes /\ req'[p] = NoReq
               /\ IF resp[p].status = 0 \/ (IsOk(resp[p]) /\ ~resp[p].body.obj)
                    THEN res'[p].status = 500 /\ res'[p].json.success = FALSE
                  ELSE IF ~IsOk(resp[p])
                    THEN /\ res'[p].status = resp[p].status
                         /\ DOMAIN res'[p].json = {"error", "message", "success"}
                         /\ res'[p].json.error = S_RequestFailedError
                         /\ res'[p].json.message = ResponseText(resp[p].body)
                         /\ res'[p].json.success = FALSE
                  ELSE res'[p] = HttpResponse(200, resp[p].body)
       /\ (Bridge(p) /\ res[p] # NoRes)
            => res'[p] = res[p] \/ (pc'[p] = "idle" /\ res'[p] = NoRes)
       /\ (Bridge(p)' /\ pc'[p] = "done") => res'[p] # NoRes]_vars

\* the backend answered a forwarded request 404 and the route answered 404
\* with the body of the backend as message
C28_Witness ==
  \E p \in Procs :
    /\ Bridge(p) /\ pc[p] = "done" /\ trace[p] = <<"fetch">>
    /\ res[p].status = 404
    /\ res[p].json.message = JSONstringify(BodyMsgNotFound)
    /\ res[p].json.success = FALSE

\* the continuation of polling run p handles a failed search that the test
\* of the catch block classifies as not found or not indexed
NotIndexedRound(p) ==
  /\ Handles(p) /\ Polling(p) /\ pc[p] = "search"
  /\ ~IsOk(resp[p]) /\ NeedsIndexingSummary(resp[p])

ClassifiedNotIndexed(r) == r.status \notin {401, 403} /\ NotIndexedBySpec(r)

\* C30: inside a polling run an index request is issued only directly after
\* a search of the run classified NotIndexed, every search after the first
\* comes directly after exactly one wait, no wait follows the last search,
\* and a run that has ended made one wait fewer than searches.
C30_EventOrdering ==
  [][\A p \in Procs :
       Polling(p)' =>
         /\ (pc'[p] = "index" /\ pc[p] # "index")
              => /\ Handles(p) /\ pc[p] = "search" /\ ClassifiedNotIndexed(resp[p])
                 /\ trace'[p] = Append(trace[p], "index")
         /\ \A i \in 2..Len(trace'[p]) :
              trace'[p][i] = "search"
                => trace'[p][i - 1] = "wait" /\ (i > 2 => trace'[p][i - 2] # "wait")
         /\ (pc'[p] = "done" /\ trace'[p] # <<>>)
              => /\ trace'[p][Len(trace'[p])] # "wait"
                 /\ Count(trace'[p], "wait") = Count(trace'[p], "search") - 1]_vars

(***************************************************************************)
(* Two polling runs at a time, both for the same repository: each slot     *)
(* sets the token with a chat command or runs vectorSearchWithSummary.     *)
(***************************************************************************)
PollingResponses ==
  {Response(200, BodyResults), Response(404, BodyMsgNotFound),
   Response(400, BodyMsgOther), Response(200, BodyAccepted),
   Response(200, BodyErrorFlag)}

SetTokenChat(p) ==
  /\ Quiet /\ pc[p] = "idle"
  /\ Apply(p, chatStart(Invoke(p, "chat", M_SetT1, RepoShort), OAUTH_TOKEN))

PollingStart(p) ==
  /\ Quiet /\ pc[p] = "idle"
  /\ Apply(p, summaryStart(Invoke(p, "vectorSearchWithSummary", M_Query, RepoShort),
                           OAUTH_TOKEN))

PollingDeliver(p) == Deliver(p) /\ resp'[p] \in PollingResponses

NextPolling ==
  \E p \in Procs :
    \/ SetTokenChat(p)
    \/ PollingStart(p)
    \/ PollingDeliver(p)
    \/ SummaryContinue(p)
    \/ DelayElapsed(p)
    \/ Return(p)

SpecPolling == Init /\ [][NextPolling]_vars

\* C31: the loop counter and the indexed flag belong to one invocation.  A
\* polling run starts at attempt 0 with indexed false whatever the other run
\* has reached; a step of one run leaves the counter and the flag of the
\* other unchanged; and a run whose first search is classified as not found
\* sends its index request also while the index request of the other run is
\* pending or the other run has indexed already.
C31_RunLocalCounters ==
  [][\A p, q \in Procs :
       p # q =>
         /\ (pc[p] = "idle" /\ Polling(p)')
              => /\ attempt'[p] = 0 /\ indexed'[p] = FALSE
                 /\ OAUTH_TOKEN # NoToken => trace'[p] = <<"search">>
         /\ (pc'[p] # pc[p] \/ resp'[p] # resp[p])
              => attempt'[q] = attempt[q] /\ indexed'[q] = indexed[q]
         /\ (NotIndexedRound(p) /\ IndexCalls(p) = 0 /\ OAUTH_TOKEN # NoToken
             /\ Polling(q) /\ (pc[q] = "index" \/ indexed[q]))
              => pc'[p] = "index" /\ trace'[p] = Append(trace[p], "index")]_vars

\* the index requests of two polling runs for the same repository are
\* pending at the same time
C31_Witness ==
  /\ Polling("A") /\ Polling("B") /\ repository["A"] = repository["B"]
  /\ pc["A"] = "index" /\ pc["B"] = "index"
  /\ req["A"].op = "index" /\ req["B"].op = "index"
  /\ IndexCalls("A") = 1 /\ IndexCalls("B") = 1

\* the response to a request p sent through protectedAxios with a token
\* that is no longer the stored one has arrived with status 401 or 403
StaleAuthFailure(p) ==
  /\ resp[p] # NoResp /\ req[p].via = "protectedAxios"
  /\ resp[p].status \in {401, 403}
  /\ req[p].auth # <<>> /\ OAUTH_TOKEN # NoToken
  /\ req[p].auth # getAuthHeader(OAUTH_TOKEN)

\* C32: the clear on 401/403 does not look at the token that failed: when
\* the answer 401 or 403 to a request sent with one token is handled after a
\* /set-token has stored another token, the store is empty afterwards.
C32_ClearIgnoresWhichToken ==
  [][\A p \in Procs :
       (StaleAuthFailure(p) /\ Handles(p)) => OAUTH_TOKEN' = NoToken]_vars

\* the search of vectorSearch was sent with "t1", the chat command
\* /set-token t2 has stored "t2", and the answer 401 to the search has arrived
C32_Witness ==
  /\ tool["A"] = "vectorSearch" /\ pc["A"] = "search" /\ StaleAuthFailure("A")
  /\ req["A"].auth = getAuthHeader(T1) /\ resp["A"].status = 401
  /\ tool["B"] = "chat" /\ message["B"] = M_SetT2 /\ pc["B"] = "done"
  /\ OAUTH_TOKEN = T2

(***************************************************************************)
(* The route POST /mcp of both servers when the environment does not set   *)
(* MCP_SECRET_TOKEN.                                                        *)
(***************************************************************************)
InitUnset ==
  /\ OAUTH_TOKEN = NoToken
  /\ tool = [p \in Procs |-> Idle.tool]
  /\ pc = [p \in Procs |-> Idle.pc]
  /\ message = [p \in Procs |-> Idle.message]
  /\ repository = [p \in Procs |-> Idle.repository]
  /\ attempt = [p \in Procs |-> Idle.attempt]
  /\ indexed = [p \in Procs |-> Idle.indexed]
  /\ lastError = [p \in Procs |-> Idle.lastError]
  /\ req = [p \in Procs |-> Idle.req]
  /\ resp = [p \in Procs |-> Idle.resp]
  /\ ret = [p \in Procs |-> Idle.ret]
  /\ trace = [p \in Procs |-> Idle.trace]
  /\ all404 = [p \in Procs |-> Idle.all404]
  /\ argRepoUrl = [p \in Procs |-> Idle.repoUrl]
  /\ res = [p \in Procs |-> Idle.res]
  /\ httpReq = [p \in Procs |-> Idle.httpReq]
  /\ retries = [p \in Procs |-> Idle.retries]
  /\ MCP_SECRET_TOKEN = <<>>
  /\ calls = <<>>

NextUnset ==
  \E p \in ToolProcs :
    \/ Mcp(p)
    \/ ReplitMcp(p)
    \/ DeliverPlain(p)
    \/ McpContinue(p)
    \/ ReplitMcpContinue(p)
    \/ Return(p)

SpecUnset == InitUnset /\ [][NextUnset]_vars

\* C33: with MCP_SECRET_TOKEN unset, a POST /mcp request whose Authorization
\* header is exactly "Bearer undefined" passes the check and, its parameters
\* being there, is forwarded to the backend; a request with any other header
\* or with none is answered 401 and nothing is forwarded.
C33_UnsetSecret ==
  [][\A p \in Procs :
       (MCP_SECRET_TOKEN = <<>> /\ pc[p] = "idle" /\ pc'[p] # "idle" /\ Bridge(p)')
       => IF httpReq'[p].authorization = S_Bearer \o S_undefined
            THEN /\ res'[p].status # 401
                 /\ httpReq'[p].hasParams
                      => pc'[p] = "fetch" /\ req'[p].op = "fetch"
                         /\ trace'[p] = <<"fetch">>
            ELSE /\ pc'[p] = "done" /\ req'[p] = NoReq /\ trace'[p] = <<>>
                 /\ res'[p] = HttpResponse(401, [error |-> S_Unauthorized])]_vars

\* no secret is configured and a request with "Bearer undefined" is on its
\* way to the backend
C33_Witness ==
  \E p \in Procs :
    /\ MCP_SECRET_TOKEN = <<>> /\ Bridge(p) /\ pc[p] = "fetch"
    /\ httpReq[p].authorization = S_Bearer \o S_undefined
    /\ req[p].op = "fetch"

\* C34: the route POST /mcp does not touch the credential store: no step of
\* a request to it, whether it is rejected, fails or is answered by the
\* backend with any status, 401 and 403 included, changes OAUTH_TOKEN; and
\* the request it forwards carries no Authorization header and no
\* X-MCP-Token header.
C34_BridgeIndependent ==
  [][\A p \in Procs :
       /\ ((Bridge(p) \/ Bridge(p)') /\ (pc'[p] # pc[p] \/ resp'[p] # resp[p]))
            => OAUTH_TOKEN' = OAUTH_TOKEN
       /\ (Bridge(p)' /\ req'[p] # NoReq)
            => /\ req'[p].via = "fetch"
               /\ req'[p].auth = <<>>
               /\ req'[p].xMcpToken = <<>>]_vars

\* the backend answered a forwarded request 401, the route passed the 401
\* on, and the token stored by /set-token is still there
C34_Witness ==
  \E p \in Procs :
    /\ Bridge(p) /\ pc[p] = "done" /\ trace[p] = <<"fetch">>
    /\ res[p].status = 401 /\ res[p].json.error = S_RequestFailedError
    /\ OAUTH_TOKEN # NoToken /\ MCP_SECRET_TOKEN # <<>>

(***************************************************************************)
(* The chat tool alone, with messages around the /set-token command: the   *)
(* prefix with nothing or with white space after it, and the command with  *)
(* white space around it and around its token.                             *)
(***************************************************************************)
ChatProcs == {"B"}

ChatTexts ==
  ChatMessages
    \cup {S_SetTokenBare, S_SetTokenCmd, S_SetTokenCmd \o <<" ", "\t">>,
          <<" ">> \o S_SetTokenBare \o <<"\n">>,
          S_SetTokenCmd \o <<" ">> \o T1, <<" ">> \o M_SetT2 \o <<" ">>}

ChatAny(p) ==
  /\ Quiet /\ pc[p] = "idle"
  /\ \E msg \in ChatTexts :
       Apply(p, chatStart(Invoke(p, "chat", msg, RepoShort), OAUTH_TOKEN))

NextChat ==
  \E p \in ChatProcs :
    \/ ChatAny(p)
    \/ Deliver(p)
    \/ ChatContinue(p)
    \/ Return(p)

SpecChat == Init /\ [][NextChat]_vars

\* the message is "/set-token" with nothing but white space around it
BareSetToken(msg) == trim(msg) = S_SetTokenBare

\* C35: a chat message that is "/set-token" after trimming is no command:
\* the credential stays as it is and the message is handled as a query, with
\* the no-credential prompt when no token is stored and otherwise with a
\* search whose query is the message; and no chat invocation ever returns
\* "Please provide a token after /set-token.".
C35_BareSetTokenIsQuery ==
  [][\A p \in Procs :
       /\ (pc[p] = "idle" /\ tool'[p] = "chat" /\ BareSetToken(message'[p]))
            => /\ OAUTH_TOKEN' = OAUTH_TOKEN
               /\ IF OAUTH_TOKEN = NoToken
                    THEN /\ pc'[p] = "done" /\ trace'[p] = <<>>
                         /\ ret'[p] = Envelope(NoTokenMessage)
                    ELSE /\ pc'[p] = "search" /\ trace'[p] = <<"search">>
                         /\ req'[p].op = "search" /\ req'[p].url = "/search"
                         /\ req'[p].query = message'[p]
       /\ ret'[p].text # S_ProvideToken]_vars

\* with a token stored, the message "/set-token " is on its way to the
\* backend as the query of a search
C35_Witness ==
  \E p \in Procs :
    /\ tool[p] = "chat" /\ message[p] = S_SetTokenCmd /\ pc[p] = "search"
    /\ req[p].op = "search" /\ req[p].query = S_SetTokenCmd
    /\ OAUTH_TOKEN # NoToken

\* the search answer r has no results: the request failed, the payload is
\* empty, or the payload's text contains "error"
NoResults(r) ==
  \/ ~IsOk(r)
  \/ JSONstringify(r.body) \in {J_open \o J_close, J_lbracket \o J_rbracket}
  \/ includes(JSONstringify(r.body), S_error)

\* this step of p attempts the index call: the request goes out, or the call
\* of the absent server.tools throws
IndexAttempted(p) ==
  \/ IndexCalls(p)' > IndexCalls(p)
  \/ ret'[p] = Thrown(S_TypeError) /\ ret[p] # Thrown(S_TypeError)

\* C36: vectorSearch of the static-token variant starts with one search; a
\* first answer with results ends the run after that one search, any other
\* first answer is followed at once by a second search and never by a third;
\* no step waits; and the index call is attempted only when the second
\* search too had no results and a repoUrl was supplied.
C36_TwoSearchesThenIndex ==
  [][\A p \in Procs :
       /\ (pc[p] = "idle" /\ tool'[p] = "replit.vectorSearch")
            => pc'[p] = "search" /\ trace'[p] = <<"search">>
       /\ (Handles(p) /\ tool[p] = "replit.vectorSearch")
            => /\ Waits(p)' = 0 /\ Searches(p)' <= 2
               /\ (pc[p] = "search" /\ Searches(p) = 1)
                    => IF NoResults(resp[p])
                         THEN pc'[p] = "search" /\ trace'[p] = <<"search", "search">>
                         ELSE pc'[p] = "done" /\ trace'[p] = <<"search">>
               /\ (pc[p] = "search" /\ Searches(p) = 2 /\ ~NoResults(resp[p]))
                    => pc'[p] = "done" /\ trace'[p] = <<"search", "search">>
               /\ IndexAttempted(p)
                    => /\ pc[p] = "search" /\ Searches(p) = 2
                       /\ NoResults(resp[p]) /\ argRepoUrl[p] # <<>>]_vars

\* a run with a repoUrl has sent two searches and then the index request
C36_Witness ==
  \E p \in Procs :
    /\ tool[p] = "replit.vectorSearch" /\ argRepoUrl[p] = RepoFull
    /\ pc[p] = "index" /\ trace[p] = <<"search", "search", "index">>

(***************************************************************************)
(* connectToGoServer of the Replit variant (part_000 lines 443-464): the   *)
(* health request is tried up to retries times.  attempt is the loop       *)
(* variable i.                                                             *)
(***************************************************************************)
MaxRetries == 4

ConnectProcs == {"A"}

\* the value connectToGoServer returned
Returned(value) == [value |-> value]

\* response.data of a body that is the JSON value null
BodyNull == [null |-> TRUE]

\* the answers to GET /health: success true, an object without success, a
\* body that is no object, null, an error status, no response
HealthResponses ==
  {Response(200, BodyResults), Response(200, BodyAccepted), Response(200, NoBody),
   Response(200, BodyNull), Response(500, NoBody), NoResponse}

\* part_000 lines 447-448: axios rejects, or reading success of null throws
HealthThrows(r) == ~IsOk(r) \/ r.body = BodyNull

\* part_000 line 456: the wait of 5 seconds
connectWait(l) ==
  [l EXCEPT !.pc = "delay", !.req = NoReq, !.resp = NoResp,
            !.trace = Append(@, "wait 5000")]

\* part_000 lines 445-447 and 460-461: the loop test with i = l.attempt
connectLoop(l) ==
  IF l.attempt < l.retries
    THEN send(l, GetRequest("/health"))
    ELSE [finish(l, Returned(FALSE)) EXCEPT !.attempt = l.attempt]

\* part_000 line 444
connectStart(l) == connectLoop([l EXCEPT !.attempt = 0])

\* faulty variant: the wait follows the last attempt too
connectCatch_WaitsAfterLast(l) == connectWait(l)

\* part_000 lines 453-457: the catch block
connectCatch(l) ==
  IF l.attempt < l.retries - 1
    THEN connectWait(l)
    ELSE connectLoop([l EXCEPT !.attempt = @ + 1])

\* part_000 lines 447-458, after the response of one attempt
connectAfterHealth(l, r) ==
  IF HealthThrows(r) THEN connectCatch(l)
  ELSE IF r.body.success THEN [finish(l, Returned(TRUE)) EXCEPT !.attempt = l.attempt]
  ELSE connectLoop([l EXCEPT !.attempt = @ + 1])

\* part_000 lines 456 and 445: the timer fires and the loop goes on
connectDelayElapsed(l) == connectLoop([l EXCEPT !.attempt = @ + 1])

ConnectToGoServer(p) ==
  /\ Quiet /\ pc[p] = "idle"
  /\ \E n \in 0..MaxRetries :
       Apply(p, Step(connectStart([Invoke(p, "connectToGoServer", <<>>, <<>>)
                                     EXCEPT !.retries = n]), OAUTH_TOKEN))

ConnectDeliver(p) ==
  /\ Quiet /\ pc[p] = "get" /\ tool[p] = "connectToGoServer"
  /\ \E r \in HealthResponses : resp' = [resp EXCEPT ![p] = r]
  /\ UNCHANGED <<OAUTH_TOKEN, tool, pc, message, repository, attempt, indexed,
                 lastError, req, ret, trace, all404, argRepoUrl, res, httpReq, retries,
                 MCP_SECRET_TOKEN, calls>>

ConnectContinue(p) ==
  /\ resp[p] # NoResp /\ tool[p] = "connectToGoServer"
  /\ Apply(p, Step(connectAfterHealth(Local(p), resp[p]), OAUTH_TOKEN))

ConnectDelayElapsed(p) ==
  /\ Quiet /\ pc[p] = "delay" /\ tool[p] = "connectToGoServer"
  /\ Apply(p, Step(connectDelayElapsed(Local(p)), OAUTH_TOKEN))

NextConnect ==
  \E p \in ConnectProcs :
    \/ ConnectToGoServer(p)
    \/ ConnectDeliver(p)
    \/ ConnectContinue(p)
    \/ ConnectDelayElapsed(p)
    \/ Return(p)

SpecConnect == Init /\ [][NextConnect]_vars

Connecting(p) == tool[p] = "connectToGoServer"

\* the health requests and the waits of the call so far
Healths(p) == Count(trace[p], "get")
ConnectWaits(p) == Count(trace[p], "wait 5000")

\* this step ends the call of p with the value v
Returns(p, v) == pc[p] # "done" /\ pc'[p] = "done" /\ ret'[p] = Returned(v)

\* C37: connectToGoServer(retries) sends at most retries health requests; a
\* response with success = true ends it with true and without a further
\* request; it returns false only when retries attempts have failed, and an
\* unsuccessful last attempt ends it with false; it starts a wait, of 5
\* seconds, only in the step that handles an attempt that threw and was not
\* the last one, and the attempts after a response without success follow
\* with no wait.
C37_ConnectRetries ==
  [][\A p \in Procs :
       (Connecting(p)' /\ pc[p] # "done") =>
         /\ Healths(p)' <= retries'[p]
         /\ (Handles(p) /\ ~HealthThrows(resp[p]) /\ resp[p].body.success)
              => Returns(p, TRUE) /\ trace'[p] = trace[p]
         /\ Returns(p, FALSE) => Healths(p)' = retries'[p] /\ trace'[p] = trace[p]
         /\ (Handles(p) /\ Healths(p) = retries[p]
             /\ (HealthThrows(resp[p]) \/ ~resp[p].body.success))
              => Returns(p, FALSE)
         /\ ConnectWaits(p)' > ConnectWaits(p)
              => /\ Handles(p) /\ HealthThrows(resp[p]) /\ Healths(p) < retries[p]
                 /\ trace'[p] = Append(trace[p], "wait 5000")
         /\ (Handles(p) /\ ~HealthThrows(resp[p]) /\ ~resp[p].body.success
             /\ Healths(p) < retries[p])
              => trace'[p] = Append(trace[p], "get")]_vars

\* a call with three retries: the first attempt threw and was waited after,
\* the second was answered without success, the third threw, and the call
\* returned false with no second wait
C37_Witness ==
  \E p \in Procs :
    /\ Connecting(p) /\ retries[p] = 3 /\ pc[p] = "done" /\ ret[p] = Returned(FALSE)
    /\ trace[p] = <<"get", "wait 5000", "get", "get">>

====
